---- MODULE Spec2Model ----
(***************************************************************************)
(* slurp: text archives (v4), legacy shell archives (v1), the gzip+base64  *)
(* layer (v2), the AES-256-GCM layer (v3), the archive reader and the      *)
(* extractor, modelled from slurp.js.                                      *)
(*                                                                         *)
(* A JavaScript string is a sequence of one-character strings; a Buffer is *)
(* a sequence of numbers 0..255.  Every literal of the source is spelled   *)
(* out character by character, so that the regular expressions, split,     *)
(* join, startsWith and endsWith of the source act on characters here too. *)
(***************************************************************************)
EXTENDS Integers, Sequences, FiniteSets, TLC

(***************************************************************************)
(* Characters and bytes                                                    *)
(***************************************************************************)
NL == "\n"
\* U+0000 and U+FFFD, the two characters of the model outside ASCII 10, 32..126
NUL == "U+0000"
REPLACEMENT == "U+FFFD"

\* ASCII 32..126 in order: Printable[i] has code 31 + i (the grave accent, code 96,
\* is written "U+0060")
Printable ==
  << " ", "!", "\"", "#", "$", "%", "&", "'", "(", ")", "*", "+", ",", "-", ".", "/",
     "0", "1", "2", "3", "4", "5", "6", "7", "8", "9", ":", ";", "<", "=", ">", "?",
     "@", "A", "B", "C", "D", "E", "F", "G", "H", "I", "J", "K", "L", "M", "N", "O",
     "P", "Q", "R", "S", "T", "U", "V", "W", "X", "Y", "Z", "[", "\\", "]", "^", "_",
     "U+0060", "a", "b", "c", "d", "e", "f", "g", "h", "i", "j", "k", "l", "m", "n", "o",
     "p", "q", "r", "s", "t", "u", "v", "w", "x", "y", "z", "{", "|", "}", "~" >>

PrintableSet == {Printable[i] : i \in 1..95}

OrdOf == [c \in PrintableSet |-> CHOOSE i \in 32..126 : Printable[i - 31] = c]

\* the UTF-8 bytes of one character
charBytes(c) ==
  CASE c = NL -> <<10>>
    [] c = NUL -> <<0>>
    [] c = REPLACEMENT -> <<239, 191, 189>>
    [] c \in PrintableSet -> <<OrdOf[c]>>

\* the character a single byte decodes to; a byte that is no valid UTF-8
\* (here: any byte above 127, none of which starts a valid sequence in the
\* model's inputs) decodes to U+FFFD
byteChar(b) ==
  CASE b = 10 -> NL
    [] b = 0 -> NUL
    [] b \in 32..126 -> Printable[b - 31]
    [] b > 127 -> REPLACEMENT

RECURSIVE Flat(_, _, _)
\* ss[lo] \o ... \o ss[hi]
Flat(ss, lo, hi) ==
  IF lo > hi THEN <<>>
  ELSE IF lo = hi THEN ss[lo]
  ELSE LET mid == (lo + hi) \div 2
       IN Flat(ss, lo, mid) \o Flat(ss, mid + 1, hi)

Concat(ss) == Flat(ss, 1, Len(ss))

\* Buffer.from(s, 'utf-8')
utf8Bytes(s) == Concat([i \in 1..Len(s) |-> charBytes(s[i])])

\* the first index of a valid 3-byte encoding of U+FFFD is decoded as one character
IsReplAt(b, i) == i + 2 <= Len(b) /\ b[i] = 239 /\ b[i + 1] = 191 /\ b[i + 2] = 189

\* buffer.toString('utf-8'): the encodings of U+FFFD cannot overlap one another, so
\* byte i is the second or third byte of one exactly when one starts at i - 1 or i - 2
utf8String(b) ==
  Concat([i \in 1..Len(b) |->
            IF IsReplAt(b, i) THEN <<REPLACEMENT>>
            ELSE IF (i >= 2 /\ IsReplAt(b, i - 1)) \/ (i >= 3 /\ IsReplAt(b, i - 2)) THEN <<>>
            ELSE <<byteChar(b[i])>>])

(***************************************************************************)
(* String helpers of the JavaScript runtime                                *)
(***************************************************************************)
startsWith(s, p) == Len(s) >= Len(p) /\ SubSeq(s, 1, Len(p)) = p
endsWith(s, p) == Len(s) >= Len(p) /\ SubSeq(s, Len(s) - Len(p) + 1, Len(s)) = p
dropFirst(s, n) == SubSeq(s, n + 1, Len(s))
dropLast(s, n) == SubSeq(s, 1, Len(s) - n)

\* s.split(c): the pieces between the occurrences of c, whose indexes are cuts
splitOn(s, c) ==
  LET cuts == <<0>> \o Concat([i \in 1..Len(s) |-> IF s[i] = c THEN <<i>> ELSE <<>>])
                   \o <<Len(s) + 1>>
  IN [k \in 1..(Len(cuts) - 1) |-> SubSeq(s, cuts[k] + 1, cuts[k + 1] - 1)]

\* s.split('\n')
split(s) == splitOn(s, NL)

\* lines.join(sep)
join(lines, sep) ==
  Concat([k \in 1..(2 * Len(lines) - 1) |->
            IF k % 2 = 1 THEN lines[(k + 1) \div 2] ELSE sep])

\* lines.indexOf(x, from), 1-based, 0 when x is absent; `from` is the first index tried
indexOf(lines, x, from) ==
  LET hits == {i \in from..Len(lines) : lines[i] = x}
  IN IF hits = {} THEN 0 ELSE CHOOSE i \in hits : \A j \in hits : i <= j

RECURSIVE digits(_)
\* String(n) for n >= 0
digits(n) ==
  IF n < 10 THEN <<Printable[n + 17]>>
  ELSE digits(n \div 10) \o <<Printable[(n % 10) + 17]>>

IsDigit(c) == c \in {Printable[i] : i \in 17..26}

RECURSIVE parseDigits(_, _)
\* parseInt of a run of digits
parseDigits(s, acc) ==
  IF s = <<>> THEN acc
  ELSE parseDigits(Tail(s), acc * 10 + (OrdOf[Head(s)] - 48))

IsSpace(c) == c \in {" ", NL}

\* chunks with /.{76}/g for the pattern: a last piece shorter than w is lost
chunksWhole(s, w) == [k \in 1..(Len(s) \div w) |-> SubSeq(s, (k - 1) * w + 1, k * w)]

\* b64.match(/.{1,76}/g): the pieces of width w of a string without line breaks
chunks(s, w) ==
  [k \in 1..((Len(s) + w - 1) \div w) |->
     SubSeq(s, (k - 1) * w + 1, IF k * w < Len(s) THEN k * w ELSE Len(s))]

(***************************************************************************)
(* base64, as Buffer.toString('base64') and Buffer.from(s, 'base64')       *)
(***************************************************************************)
B64 ==
  << "A", "B", "C", "D", "E", "F", "G", "H", "I", "J", "K", "L", "M", "N", "O", "P",
     "Q", "R", "S", "T", "U", "V", "W", "X", "Y", "Z", "a", "b", "c", "d", "e", "f",
     "g", "h", "i", "j", "k", "l", "m", "n", "o", "p", "q", "r", "s", "t", "u", "v",
     "w", "x", "y", "z", "0", "1", "2", "3", "4", "5", "6", "7", "8", "9", "+", "/" >>

B64Set == {B64[i] : i \in 1..64}

B64Val == [c \in B64Set |-> (CHOOSE i \in 1..64 : B64[i] = c) - 1]

Pow2(k) == CASE k = 0 -> 1 [] k = 2 -> 4 [] k = 4 -> 16 [] k = 6 -> 64
             [] k = 8 -> 256 [] k = 10 -> 1024 [] k = 12 -> 4096 [] k = 18 -> 262144

byteAt(b, i) == IF i <= Len(b) THEN b[i] ELSE 0

\* buffer.toString('base64'): three bytes give four characters, '=' pads the last group
base64Encode(b) ==
  [k \in 1..(4 * ((Len(b) + 2) \div 3)) |->
     LET g == (k - 1) \div 4
         j == (k - 1) % 4
         v == byteAt(b, 3 * g + 1) * 65536 + byteAt(b, 3 * g + 2) * 256 + byteAt(b, 3 * g + 3)
     IN IF j >= 2 /\ 3 * g + j > Len(b) THEN "="
        ELSE B64[((v \div Pow2(18 - 6 * j)) % 64) + 1]]

\* the characters before the first '='
beforePad(s) ==
  LET pads == {i \in 1..Len(s) : s[i] = "="}
  IN IF pads = {} THEN s
     ELSE SubSeq(s, 1, (CHOOSE i \in pads : \A j \in pads : i <= j) - 1)

sextetAt(d, i) == IF i <= Len(d) THEN B64Val[d[i]] ELSE 0

\* Buffer.from(s, 'base64'): decoding is lenient; every whole byte the characters
\* before the padding hold is returned, and the bits left over are dropped unread
base64Decode(s) ==
  LET d == beforePad(s)
  IN [i \in 1..((Len(d) * 6) \div 8) |->
        LET off == 8 * (i - 1)
            q == off \div 6
            r == off % 6
            v == sextetAt(d, q + 1) * 4096 + sextetAt(d, q + 2) * 64 + sextetAt(d, q + 3)
        IN (v \div Pow2(10 - r)) % 256]

(***************************************************************************)
(* SHA-256, stood in for by a polynomial hash over the bytes: 64 hex       *)
(* characters that differ whenever one or two neighbouring bytes differ.   *)
(***************************************************************************)
HexChars == <<"0", "1", "2", "3", "4", "5", "6", "7", "8", "9", "a", "b", "c", "d", "e", "f">>

IsHex(c) == c \in {HexChars[i] : i \in 1..16}

RECURSIVE powMod(_, _)
\* 257^k modulo p
powMod(k, p) ==
  IF k = 0 THEN 1
  ELSE LET r == powMod(k \div 2, p)
       IN (((r * r) % p) * (IF k % 2 = 1 THEN 257 ELSE 1)) % p

RECURSIVE hashSeg(_, _, _, _)
\* the polynomial (b[lo] + 1) * 257^(hi - lo) + ... + (b[hi] + 1) modulo p
hashSeg(b, lo, hi, p) ==
  IF lo > hi THEN 0
  ELSE IF lo = hi THEN (b[lo] + 1) % p
  ELSE LET mid == (lo + hi) \div 2
       IN (hashSeg(b, lo, mid, p) * powMod(hi - mid, p) + hashSeg(b, mid + 1, hi, p)) % p

hashMod(b, seed, p) == ((seed % p) * powMod(Len(b), p) + hashSeg(b, 1, Len(b), p)) % p

\* the polynomial hash modulo two primes, the two residues in one number
polyHash(b, seed) == hashMod(b, seed, 46337) * 46327 + hashMod(b, seed, 46327)

Pow16(k) == CASE k = 0 -> 1 [] k = 1 -> 16 [] k = 2 -> 256 [] k = 3 -> 4096
              [] k = 4 -> 65536 [] k = 5 -> 1048576 [] k = 6 -> 16777216
              [] k = 7 -> 268435456

\* crypto.createHash('sha256').update(buffer).digest('hex')
sha256(buffer) ==
  LET h == polyHash(buffer, Len(buffer) + 1)
  IN [k \in 1..64 |-> HexChars[((h \div Pow16((k - 1) % 8)) % 16) + 1]]

(***************************************************************************)
(* Helpers of slurp.js                                                     *)
(***************************************************************************)
spaces(n) == [i \in 1..n |-> " "]
padStart(s, n) == IF Len(s) >= n THEN s ELSE spaces(n - Len(s)) \o s
padEnd(s, n) == IF Len(s) >= n THEN s ELSE s \o spaces(n - Len(s))

\* (x / unit).toFixed(1)
toFixed1(x, unit) ==
  LET tenths == (x * 20 + unit) \div (2 * unit)
  IN digits(tenths \div 10) \o <<".">> \o digits(tenths % 10)

humanSize(bytes) ==
  IF bytes < 1024 THEN digits(bytes) \o <<" ","B">>
  ELSE IF bytes < 1024 * 1024 THEN toFixed1(bytes, 1024) \o <<" ","K","B">>
  ELSE toFixed1(bytes, 1024 * 1024) \o <<" ","M","B">>

\* filePath.replace(/[/.]/g, '_')
eofMarker(filePath) ==
  <<"S","L","U","R","P","_","E","N","D","_">> \o [i \in 1..Len(filePath) |->
                     IF filePath[i] \in {"/", "."} THEN "_" ELSE filePath[i]]

isBinary(buffer) ==
  \E i \in 1..(IF Len(buffer) < 8192 THEN Len(buffer) ELSE 8192) : buffer[i] = 0

\* the archive text is kept as the list of its pushed pieces, joined by '\n' at the end
promptAsComments(text) ==
  LET ls == split(text)
  IN join([i \in 1..Len(ls) |-> IF ls[i] # <<>> THEN <<"#"," ">> \o ls[i] ELSE <<"#">>], <<NL>>)

Max(a, b) == IF a >= b THEN a ELSE b

RECURSIVE maxLenFrom(_, _)
\* Math.max(...entries.map(e => e.relPath.length), 4)
maxLenFrom(entries, i) ==
  IF i > Len(entries) THEN 4
  ELSE Max(Len(entries[i].relPath), maxLenFrom(entries, i + 1))

RECURSIVE sumSizes(_, _)
sumSizes(entries, i) ==
  IF i > Len(entries) THEN 0 ELSE entries[i].size + sumSizes(entries, i + 1)

(***************************************************************************)
(* pack                                                                    *)
(***************************************************************************)
\* one file read and classified (the map over fileList); checksum <<>> stands for null
packEntry(f, noChecksum) ==
  LET binary == isBinary(f.content)
  IN [relPath |-> f.relPath,
      content |-> f.content,
      text |-> IF binary THEN <<>> ELSE utf8String(f.content),
      binary |-> binary,
      size |-> Len(f.content),
      checksum |-> IF noChecksum THEN <<>> ELSE sha256(f.content)]

manifestLine(e, maxLen) ==
  LET size == padStart(humanSize(e.size), 10)
      ck == IF e.checksum # <<>> THEN <<" "," ","s","h","a","2","5","6",":">> \o SubSeq(e.checksum, 1, 16) ELSE <<>>
      bin == IF e.binary THEN <<" "," ","[","b","i","n","a","r","y","]">> ELSE <<>>
  IN <<"#"," "," "," ">> \o padEnd(e.relPath, maxLen) \o <<" "," ">> \o size \o ck \o bin

\* the pieces pushed for one entry's body
bodyLines(e) ==
  (IF e.binary
   THEN << <<"=","=","="," ">> \o e.relPath \o <<" ","[","b","i","n","a","r","y","]"," ","=","=","=">>,
           join(chunks(base64Encode(e.content), 76), <<NL>>) >>
   ELSE << <<"=","=","="," ">> \o e.relPath \o <<" ","=","=","=">>,
           IF endsWith(e.text, <<NL>>) THEN dropLast(e.text, 1) ELSE e.text >>)
  \o << <<"=","=","="," ","E","N","D"," ">> \o e.relPath \o <<" ","=","=","=">>, <<>> >>

\* pack that also stamps the time on the total line
packStamped(fileList, opts, prompt, now) ==
  LET name == IF opts.name # <<>> THEN opts.name ELSE <<"a","r","c","h","i","v","e">>
      description == opts.description
      entries == [i \in 1..Len(fileList) |-> packEntry(fileList[i], opts.noChecksum)]
      totalSize == sumSizes(entries, 1)
      maxLen == maxLenFrom(entries, 1)
      header ==
        << <<"#"," ","-","-","-"," ","S","L","U","R","P"," ","v","4"," ","-","-","-">> >>
        \o (IF prompt # <<>> THEN << promptAsComments(prompt) >> ELSE <<>>)
        \o << <<"#">>, <<"#"," ","n","a","m","e",":"," ">> \o name >>
        \o (IF description # <<>> THEN << <<"#"," ","d","e","s","c","r","i","p","t","i","o","n",":"," ">> \o description >> ELSE <<>>)
        \o << <<"#"," ","f","i","l","e","s",":"," ">> \o digits(Len(entries)),
              <<"#"," ","t","o","t","a","l",":"," ">> \o humanSize(totalSize) \o <<" ">> \o now,
              <<"#"," ","c","r","e","a","t","e","d",":"," ">> \o now,
              <<"#">> >>
      manifest ==
        IF Len(entries) > 0
        THEN << <<"#"," ","M","A","N","I","F","E","S","T",":">> >>
             \o [i \in 1..Len(entries) |-> manifestLine(entries[i], maxLen)]
             \o << <<"#">> >>
        ELSE <<>>
      bodies == Concat([i \in 1..Len(entries) |-> bodyLines(entries[i])])
  IN join(header \o manifest \o << <<>> >> \o bodies, <<NL>>)

\* pack(fileList, opts): prompt is what loadPrompt() returns (<<>> for null or an
\* empty file, both falsy), now is new Date().toISOString()
pack(fileList, opts, prompt, now) ==
  LET name == IF opts.name # <<>> THEN opts.name ELSE <<"a","r","c","h","i","v","e">>
      description == opts.description
      entries == [i \in 1..Len(fileList) |-> packEntry(fileList[i], opts.noChecksum)]
      totalSize == sumSizes(entries, 1)
      maxLen == maxLenFrom(entries, 1)
      header ==
        << <<"#"," ","-","-","-"," ","S","L","U","R","P"," ","v","4"," ","-","-","-">> >>
        \o (IF prompt # <<>> THEN << promptAsComments(prompt) >> ELSE <<>>)
        \o << <<"#">>, <<"#"," ","n","a","m","e",":"," ">> \o name >>
        \o (IF description # <<>> THEN << <<"#"," ","d","e","s","c","r","i","p","t","i","o","n",":"," ">> \o description >> ELSE <<>>)
        \o << <<"#"," ","f","i","l","e","s",":"," ">> \o digits(Len(entries)),
              <<"#"," ","t","o","t","a","l",":"," ">> \o humanSize(totalSize),
              <<"#"," ","c","r","e","a","t","e","d",":"," ">> \o now,
              <<"#">> >>
      manifest ==
        IF Len(entries) > 0
        THEN << <<"#"," ","M","A","N","I","F","E","S","T",":">> >>
             \o [i \in 1..Len(entries) |-> manifestLine(entries[i], maxLen)]
             \o << <<"#">> >>
        ELSE <<>>
      bodies == Concat([i \in 1..Len(entries) |-> bodyLines(entries[i])])
  IN join(header \o manifest \o << <<>> >> \o bodies, <<NL>>)

(***************************************************************************)
(* parseContentV4, parseContentV1, parseContent                            *)
(***************************************************************************)
MetaKeys ==
  { <<"n","a","m","e">>, <<"d","e","s","c","r","i","p","t","i","o","n">>, <<"f","i","l","e","s">>, <<"t","o","t","a","l">>, <<"c","r","e","a","t","e","d">>, <<"s","e","n","t","i","n","e","l">> }

leadingSpaces(s) ==
  IF \A i \in 1..Len(s) : IsSpace(s[i]) THEN Len(s)
  ELSE (CHOOSE i \in 1..Len(s) : ~IsSpace(s[i]) /\ \A j \in 1..(i - 1) : IsSpace(s[j])) - 1

\* line.match(/^# (name|description|files|total|created|sentinel):\s*(.+)/)
metaMatch(line) ==
  LET keys == {k \in MetaKeys : startsWith(line, <<"#"," ">> \o k \o <<":">>)}
  IN IF keys = {} THEN [hit |-> FALSE]
     ELSE LET key == CHOOSE k \in keys : TRUE
              rest == dropFirst(line, Len(key) + 3)
              w == leadingSpaces(rest)
          IN IF rest = <<>> THEN [hit |-> FALSE]
             ELSE [hit |-> TRUE, key |-> key,
                   \* \s* gives one space back to (.+) when nothing else is left
                   val |-> IF w < Len(rest) THEN dropFirst(rest, w) ELSE <<" ">>]

\* the positions p at which 'sha256:' and 16 hex characters start in s, from index lo on
shaHits(s, lo) ==
  {p \in lo..(Len(s) - 22) :
     /\ SubSeq(s, p, p + 6) = <<"s","h","a","2","5","6",":">>
     /\ \A k \in (p + 7)..(p + 22) : IsHex(s[k])}

\* line.match(/^#\s+(\S+)\s+.*sha256:([0-9a-f]{16})/)
manifestMatch(line) ==
  IF ~(Len(line) >= 2 /\ line[1] = "#" /\ IsSpace(line[2])) THEN [hit |-> FALSE]
  ELSE LET afterHash == dropFirst(line, 1)
           w == leadingSpaces(afterHash)
           word == dropFirst(afterHash, w)
           stop == IF \A i \in 1..Len(word) : ~IsSpace(word[i]) THEN Len(word)
                   ELSE (CHOOSE i \in 1..Len(word) :
                           IsSpace(word[i]) /\ \A j \in 1..(i - 1) : ~IsSpace(word[j])) - 1
           \* index in line of the first character after (\S+) and one space
           lo == 1 + w + stop + 2
           hits == shaHits(line, lo)
       IN IF word = <<>> \/ stop = Len(word) \/ hits = {} THEN [hit |-> FALSE]
          ELSE LET p == CHOOSE p \in hits : \A q \in hits : q <= p
               IN [hit |-> TRUE, path |-> SubSeq(word, 1, stop),
                   ck |-> SubSeq(line, p + 7, p + 22)]

\* metadata and checksums are finite maps kept as sets of <<key, value>> pairs,
\* a later assignment to a key replacing the earlier one
put(map, k, v) == {kv \in map : kv[1] # k} \cup {<<k, v>>}
has(map, k) == \E kv \in map : kv[1] = k
get(map, k) == (CHOOSE kv \in map : kv[1] = k)[2]

RECURSIVE headerV4Through(_, _, _, _, _)
\* the header loop without its break: every line of the archive is scanned
headerV4Through(lines, i, metadata, checksums, inManifest) ==
  IF i > Len(lines) THEN [metadata |-> metadata, checksums |-> checksums]
  ELSE LET line == lines[i]
           m == metaMatch(line)
           md == IF m.hit THEN put(metadata, m.key, m.val) ELSE metadata
           cm == manifestMatch(line)
       IN IF line = <<"#"," ","M","A","N","I","F","E","S","T",":">> THEN headerV4Through(lines, i + 1, md, checksums, TRUE)
          ELSE IF inManifest /\ line = <<"#">> THEN headerV4Through(lines, i + 1, md, checksums, FALSE)
          ELSE IF inManifest /\ cm.hit
               THEN headerV4Through(lines, i + 1, md, put(checksums, cm.path, cm.ck), TRUE)
          ELSE headerV4Through(lines, i + 1, md, checksums, inManifest)

RECURSIVE headerV4(_, _, _, _, _)
\* the header loop of parseContentV4 from line i on
headerV4(lines, i, metadata, checksums, inManifest) ==
  IF i > Len(lines) THEN [metadata |-> metadata, checksums |-> checksums]
  ELSE LET line == lines[i]
           m == metaMatch(line)
           md == IF m.hit THEN put(metadata, m.key, m.val) ELSE metadata
           cm == manifestMatch(line)
       IN IF ~startsWith(line, <<"#">>) /\ line # <<>>
          THEN [metadata |-> metadata, checksums |-> checksums]
          ELSE IF line = <<"#"," ","M","A","N","I","F","E","S","T",":">> THEN headerV4(lines, i + 1, md, checksums, TRUE)
          ELSE IF inManifest /\ line = <<"#">> THEN headerV4(lines, i + 1, md, checksums, FALSE)
          ELSE IF inManifest /\ cm.hit
               THEN headerV4(lines, i + 1, md, put(checksums, cm.path, cm.ck), TRUE)
          ELSE headerV4(lines, i + 1, md, checksums, inManifest)

\* lines[i].match(/^=== (.+?) ===$/)
textMatch(line) ==
  IF Len(line) >= 9 /\ startsWith(line, <<"=","=","="," ">>) /\ endsWith(line, <<" ","=","=","=">>)
  THEN [hit |-> TRUE, path |-> SubSeq(line, 5, Len(line) - 4)]
  ELSE [hit |-> FALSE]

\* lines[i].match(/^=== (.+?) \[binary\] ===$/)
binMatch(line) ==
  IF Len(line) >= 18 /\ startsWith(line, <<"=","=","="," ">>) /\ endsWith(line, <<" ","[","b","i","n","a","r","y","]"," ","=","=","=">>)
  THEN [hit |-> TRUE, path |-> SubSeq(line, 5, Len(line) - 13)]
  ELSE [hit |-> FALSE]

\* the inner loop stopping at the end delimiter of any path
blockEndAny(lines, i, marker) ==
  LET ends == {e \in i..Len(lines) : startsWith(lines[e], <<"=","=","="," ","E","N","D"," ">>)}
  IN IF ends = {} THEN Len(lines) + 1 ELSE CHOOSE e \in ends : \A j \in ends : e <= j

\* the index at which the inner while loop stops: the first line from i on equal to
\* marker, or Len(lines) + 1
blockEnd(lines, i, marker) ==
  LET e == indexOf(lines, marker, i) IN IF e = 0 THEN Len(lines) + 1 ELSE e

RECURSIVE blocksV4(_, _, _)
\* the block loop of parseContentV4 from line i on
blocksV4(lines, i, files) ==
  IF i > Len(lines) THEN files
  ELSE LET t == textMatch(lines[i])
           b == binMatch(lines[i])
       IN IF ~(t.hit \/ b.hit) THEN blocksV4(lines, i + 1, files)
          ELSE LET binary == b.hit
                   filePath == IF binary THEN b.path ELSE t.path
                   e == blockEnd(lines, i + 1, <<"=","=","="," ","E","N","D"," ">> \o filePath \o <<" ","=","=","=">>)
                   contentLines == SubSeq(lines, i + 1, e - 1)
               IN IF startsWith(filePath, <<"E","N","D"," ">>) THEN blocksV4(lines, i + 1, files)
                  ELSE blocksV4(lines, e + 1,
                         Append(files,
                           IF binary
                           THEN [path |-> filePath, binary |-> TRUE,
                                 content |-> base64Decode(Concat(contentLines))]
                           ELSE [path |-> filePath, binary |-> FALSE,
                                 content |-> join(contentLines, <<NL>>)]))

parseContentV4(content) ==
  LET lines == split(content)
      h == headerV4(lines, 1, {}, {}, FALSE)
  IN [metadata |-> h.metadata, checksums |-> h.checksums, files |-> blocksV4(lines, 1, <<>>)]

RECURSIVE metaV1(_, _, _)
\* the first header loop of parseContentV1
metaV1(lines, i, metadata) ==
  IF i > Len(lines) \/ lines[i] = <<"s","e","t"," ","-","e">> THEN metadata
  ELSE LET m == metaMatch(lines[i])
       IN metaV1(lines, i + 1, IF m.hit THEN put(metadata, m.key, m.val) ELSE metadata)

RECURSIVE manifestV1(_, _, _, _)
\* the second header loop of parseContentV1
manifestV1(lines, i, checksums, inManifest) ==
  IF i > Len(lines) \/ lines[i] = <<"s","e","t"," ","-","e">> THEN checksums
  ELSE LET cm == manifestMatch(lines[i])
       IN IF lines[i] = <<"#"," ","M","A","N","I","F","E","S","T",":">> THEN manifestV1(lines, i + 1, checksums, TRUE)
          ELSE IF inManifest /\ lines[i] = <<"#">> THEN manifestV1(lines, i + 1, checksums, FALSE)
          ELSE IF inManifest /\ cm.hit
               THEN manifestV1(lines, i + 1, put(checksums, cm.path, cm.ck), TRUE)
          ELSE manifestV1(lines, i + 1, checksums, inManifest)

\* the index of the first "'" of s, or Len(s) + 1
quoteAt(s) ==
  IF \A i \in 1..Len(s) : s[i] # "'" THEN Len(s) + 1
  ELSE CHOOSE i \in 1..Len(s) : s[i] = "'" /\ \A j \in 1..(i - 1) : s[j] # "'"

\* line.match(/^<cmd>'([^']+)' << '([^']+)'$/) for cmd = "cat > " or "base64 -d > "
heredocMatch(line, cmd) ==
  IF ~startsWith(line, cmd \o <<"'">>) THEN [hit |-> FALSE]
  ELSE LET r1 == dropFirst(line, Len(cmd) + 1)
           q1 == quoteAt(r1)
           r2 == dropFirst(r1, q1 - 1)
           r3 == dropFirst(r2, 6)
           q2 == quoteAt(r3)
       IN IF q1 >= 2 /\ startsWith(r2, <<"'"," ","<","<"," ","'">>) /\ q2 >= 2 /\ q2 = Len(r3)
          THEN [hit |-> TRUE, path |-> SubSeq(r1, 1, q1 - 1), marker |-> SubSeq(r3, 1, q2 - 1)]
          ELSE [hit |-> FALSE]

RECURSIVE blocksV1(_, _, _)
\* the block loop of parseContentV1 from line i on
blocksV1(lines, i, files) ==
  IF i > Len(lines) THEN files
  ELSE LET c == heredocMatch(lines[i], <<"c","a","t"," ",">"," ">>)
           b == heredocMatch(lines[i], <<"b","a","s","e","6","4"," ","-","d"," ",">"," ">>)
       IN IF ~(c.hit \/ b.hit) THEN blocksV1(lines, i + 1, files)
          ELSE LET match == IF c.hit THEN c ELSE b
                   e == blockEnd(lines, i + 1, match.marker)
                   contentLines == SubSeq(lines, i + 1, e - 1)
               IN blocksV1(lines, e + 1,
                    Append(files,
                      IF b.hit
                      THEN [path |-> match.path, marker |-> match.marker, binary |-> TRUE,
                            content |-> base64Decode(Concat(contentLines))]
                      ELSE [path |-> match.path, marker |-> match.marker, binary |-> FALSE,
                            content |-> join(contentLines, <<NL>>)]))

parseContentV1(content) ==
  LET lines == split(content)
  IN [metadata |-> metaV1(lines, 1, {}),
      checksums |-> manifestV1(lines, 1, {}, FALSE),
      files |-> blocksV1(lines, 1, <<>>)]

isV4(content) == split(content)[1] = <<"#"," ","-","-","-"," ","S","L","U","R","P"," ","v","4"," ","-","-","-">>

\* parseContent with every content handed to the legacy codec
parseContentLegacyOnly(content) == parseContentV1(content)

parseContent(content) ==
  IF isV4(content) THEN parseContentV4(content) ELSE parseContentV1(content)

(***************************************************************************)
(* zlib and crypto, stood in for by small functions with the interfaces    *)
(* slurp.js uses: gzip frames the data and gunzip rejects a damaged frame; *)
(* the key depends on password, salt and iteration count; the GCM tag      *)
(* depends on key, nonce and ciphertext, and decryption checks it.         *)
(***************************************************************************)
Ok(v) == [ok |-> TRUE, val |-> v]
Throw(e) == [ok |-> FALSE, err |-> e]

\* new Error(`checksum mismatch: expected ${expectedChecksum}, got ${actual}`)
Mismatch(expected, actual) ==
  [ok |-> FALSE, err |-> "checksum mismatch", expected |-> expected, actual |-> actual]

deflate(b) == [i \in 1..Len(b) |-> 255 - b[i]]

gzipTrailer(b) == <<polyHash(b, 0) % 256, Len(b) % 256>>

\* zlib.gzipSync(buffer)
gzipSync(b) == <<31, 139, 8>> \o deflate(b) \o gzipTrailer(b)

\* zlib.gunzipSync(buffer)
gunzipSync(g) ==
  IF Len(g) < 5 \/ SubSeq(g, 1, 3) # <<31, 139, 8>> THEN Throw("incorrect header check")
  ELSE LET body == deflate(SubSeq(g, 4, Len(g) - 2))
       IN IF SubSeq(g, Len(g) - 1, Len(g)) # gzipTrailer(body)
          THEN Throw("incorrect data check")
          ELSE Ok(body)

\* HMAC pads a key shorter than its block with zero bytes: keys that differ only in
\* zero bytes at the end are the same key
hmacKey(bytes) ==
  LET nonzero == {i \in 1..Len(bytes) : bytes[i] # 0}
  IN SubSeq(bytes, 1, IF nonzero = {} THEN 0 ELSE CHOOSE i \in nonzero : \A j \in nonzero : j <= i)

\* crypto.pbkdf2Sync(password, salt, iterations, 32, 'sha256'), the key as a number
pbkdf2Sync(password, salt, iterations) ==
  polyHash(hmacKey(utf8Bytes(password)) \o <<256>> \o salt \o <<256>>
             \o utf8Bytes(digits(iterations)), 7)

keyBytes(key) == <<key % 256, (key \div 256) % 256, (key \div 65536) % 256, key \div 16777216>>

\* the i-th byte of the key stream that key and nonce (as k == key + hash of iv) give
keystream(k, i) == (k + 31 * i) % 256

streamSeed(key, iv) == ((key % 256) + (polyHash(iv, 0) % 256)) % 256

\* cipher.getAuthTag(): 16 bytes
gcmTag(key, iv, ct) ==
  LET t == polyHash(keyBytes(key) \o iv \o ct, 11)
  IN [k \in 1..16 |-> keyBytes(t)[((k - 1) % 4) + 1]]

\* Buffer.concat([cipher.update(data), cipher.final()]) of aes-256-gcm
gcmEncrypt(key, iv, data) ==
  LET k == streamSeed(key, iv)
  IN [i \in 1..Len(data) |-> (data[i] + keystream(k, i)) % 256]

\* gcmDecrypt without decipher.setAuthTag(authTag): nothing is authenticated
gcmDecryptUnchecked(key, iv, authTag, encrypted) ==
  LET k == streamSeed(key, iv)
  IN Ok([i \in 1..Len(encrypted) |-> (encrypted[i] + 256 - keystream(k, i)) % 256])

\* Buffer.concat([decipher.update(encrypted), decipher.final()]) after setAuthTag:
\* final() throws when the tag does not authenticate key, nonce and ciphertext
gcmDecrypt(key, iv, authTag, encrypted) ==
  IF gcmTag(key, iv, encrypted) # authTag THEN Throw("unable to authenticate data")
  ELSE LET k == streamSeed(key, iv)
       IN Ok([i \in 1..Len(encrypted) |-> (encrypted[i] + 256 - keystream(k, i)) % 256])

(***************************************************************************)
(* compress / decompress (v2)                                              *)
(***************************************************************************)
PAYLOAD == <<"-","-","-"," ","P","A","Y","L","O","A","D"," ","-","-","-">>
END_PAYLOAD == <<"-","-","-"," ","E","N","D"," ","P","A","Y","L","O","A","D"," ","-","-","-">>
OLD_V2_START == <<"b","a","s","e","6","4"," ","-","d"," ","<","<"," ","'","S","L","U","R","P","_","C","O","M","P","R","E","S","S","E","D","'"," ","|"," ","g","u","n","z","i","p"," ","|"," ","s","h">>
OLD_V2_END == <<"S","L","U","R","P","_","C","O","M","P","R","E","S","S","E","D">>
OLD_V3_START == <<"S","L","U","R","P","_","P","A","Y","L","O","A","D","=","$","(","b","a","s","e","6","4"," ","-","d"," ","<","<"," ","'","S","L","U","R","P","_","E","N","C","R","Y","P","T","E","D","'">>
OLD_V3_END == <<"S","L","U","R","P","_","E","N","C","R","Y","P","T","E","D">>
V2_MARKER == <<"#"," ","-","-","-"," ","S","L","U","R","P"," ","v","2"," ","(","c","o","m","p","r","e","s","s","e","d",")"," ","-","-","-">>
V3_MARKER == <<"#"," ","-","-","-"," ","S","L","U","R","P"," ","v","3"," ","(","e","n","c","r","y","p","t","e","d",")"," ","-","-","-">>

signed(n) == IF n < 0 THEN <<"-">> \o digits(0 - n) ELSE digits(n)

\* String(Math.round((1 - compressedSize / originalSize) * 100))
ratioText(originalSize, compressedSize) ==
  IF originalSize = 0 THEN <<"-","I","n","f","i","n","i","t","y">>
  ELSE signed((200 * (originalSize - compressedSize) + originalSize) \div (2 * originalSize))

optName(opts) == IF opts.name # <<>> THEN opts.name ELSE <<"a","r","c","h","i","v","e">>

compress(innerArchive, opts) ==
  LET name == optName(opts)
      gzipped == gzipSync(utf8Bytes(innerArchive))
      b64 == base64Encode(gzipped)
      checksum == sha256(gzipped)
      originalSize == Len(utf8Bytes(innerArchive))
      compressedSize == Len(b64)
      wrapped == join(chunks(b64, 76), <<NL>>)
  IN join(<< V2_MARKER,
             <<"#">>,
             <<"#"," ","T","h","i","s"," ","i","s"," ","a"," ","c","o","m","p","r","e","s","s","e","d"," ","s","l","u","r","p"," ","a","r","c","h","i","v","e",".">>,
             <<"#"," ","T","h","e"," ","p","a","y","l","o","a","d"," ","i","s"," ","a"," ","g","z","i","p","-","c","o","m","p","r","e","s","s","e","d",","," ","b","a","s","e","6","4","-","e","n","c","o","d","e","d"," ","s","l","u","r","p"," ","v","4"," ","a","r","c","h","i","v","e",".">>,
             <<"#">>,
             <<"#"," ","n","a","m","e",":"," ">> \o name,
             <<"#"," ","o","r","i","g","i","n","a","l",":"," ">> \o digits(originalSize) \o <<" ","b","y","t","e","s">>,
             <<"#"," ","c","o","m","p","r","e","s","s","e","d",":"," ">> \o digits(compressedSize) \o <<" ","b","y","t","e","s">>,
             <<"#"," ","r","a","t","i","o",":"," ">> \o ratioText(originalSize, compressedSize) \o <<"%">>,
             <<"#"," ","s","h","a","2","5","6",":"," ">> \o checksum,
             <<>>,
             PAYLOAD,
             wrapped,
             END_PAYLOAD,
             <<>> >>, <<NL>>)

\* line.match(/^# sha256:\s*([0-9a-f]{64})/)
shaMatch(line) ==
  IF ~startsWith(line, <<"#"," ","s","h","a","2","5","6",":">>) THEN [hit |-> FALSE]
  ELSE LET rest == dropFirst(line, 9)
           hex == dropFirst(rest, leadingSpaces(rest))
       IN IF Len(hex) >= 64 /\ \A k \in 1..64 : IsHex(hex[k])
          THEN [hit |-> TRUE, val |-> SubSeq(hex, 1, 64)]
          ELSE [hit |-> FALSE]

\* checksumBefore with a pattern that matches no header line: nothing is expected
checksumSkipped(lines, i, stops, expected) == expected

RECURSIVE checksumBefore(_, _, _, _)
\* the header loop of decompress: the last '# sha256:' line before a payload start
\* line (stops == the lines the loop breaks at); <<>> stands for null
checksumBefore(lines, i, stops, expected) ==
  IF i > Len(lines) \/ lines[i] \in stops THEN expected
  ELSE LET m == shaMatch(lines[i])
       IN checksumBefore(lines, i + 1, stops, IF m.hit THEN m.val ELSE expected)

\* payloadMarkers without the fall back to the old pair
payloadMarkersCurrentOnly(lines, oldStart, oldEnd) ==
  [startIdx |-> indexOf(lines, PAYLOAD, 1),
   endIdx |-> IF indexOf(lines, PAYLOAD, 1) # 0
              THEN indexOf(lines, END_PAYLOAD, indexOf(lines, PAYLOAD, 1) + 1) ELSE 0]

\* startIdx and endIdx of decompress and decrypt, 1-based with 0 for -1: the current
\* markers first, the old pair when either is missing
payloadMarkers(lines, oldStart, oldEnd) ==
  LET s1 == indexOf(lines, PAYLOAD, 1)
      e1 == IF s1 # 0 THEN indexOf(lines, END_PAYLOAD, s1 + 1) ELSE 0
      s2 == indexOf(lines, oldStart, 1)
      e2 == indexOf(lines, oldEnd, s2 + 1)
  IN IF s1 = 0 \/ e1 = 0 THEN [startIdx |-> s2, endIdx |-> e2]
     ELSE [startIdx |-> s1, endIdx |-> e1]

decompress(content) ==
  LET lines == split(content)
      expectedChecksum == checksumBefore(lines, 1, {PAYLOAD, OLD_V2_START}, <<>>)
      mk == payloadMarkers(lines, OLD_V2_START, OLD_V2_END)
      b64 == Concat(SubSeq(lines, mk.startIdx + 1, mk.endIdx - 1))
      gzipped == base64Decode(b64)
      unzipped == gunzipSync(gzipped)
  IN IF mk.startIdx = 0 \/ mk.endIdx = 0
     THEN Throw("invalid v2 archive: missing payload markers")
     ELSE IF expectedChecksum # <<>> /\ sha256(gzipped) # expectedChecksum
     THEN Mismatch(expectedChecksum, sha256(gzipped))
     ELSE IF ~unzipped.ok THEN unzipped
     ELSE Ok(utf8String(unzipped.val))

\* both detectors read lines [0] and [1] of the split; [1] of a one-line text is undefined
lineOrNone(lines, i) == IF i <= Len(lines) THEN <<lines[i]>> ELSE <<>>

\* isCompressed looking at the first line only
isCompressedFirstLine(content) == lineOrNone(split(content), 1) = <<V2_MARKER>>

isCompressed(content) ==
  LET lines == split(content)
  IN lineOrNone(lines, 1) = <<V2_MARKER>> \/ lineOrNone(lines, 2) = <<V2_MARKER>>

(***************************************************************************)
(* encrypt / decrypt (v3), encryptRaw / decryptRaw                         *)
(***************************************************************************)
isEncrypted(content) ==
  LET lines == split(content)
  IN lineOrNone(lines, 1) = <<V3_MARKER>> \/ lineOrNone(lines, 2) = <<V3_MARKER>>

\* salt and iv are what the two crypto.randomBytes calls return
encrypt(innerArchive, password, opts, salt, iv) ==
  LET name == optName(opts)
      iterations == 100000
      key == pbkdf2Sync(password, salt, iterations)
      compressed == gzipSync(utf8Bytes(innerArchive))
      encrypted == gcmEncrypt(key, iv, compressed)
      authTag == gcmTag(key, iv, encrypted)
      payload == salt \o iv \o authTag \o encrypted
      b64 == base64Encode(payload)
      checksum == sha256(payload)
      wrapped == join(chunks(b64, 76), <<NL>>)
      originalSize == Len(utf8Bytes(innerArchive))
  IN join(<< V3_MARKER,
             <<"#">>,
             <<"#"," ","T","h","i","s"," ","i","s"," ","a","n"," ","e","n","c","r","y","p","t","e","d"," ","s","l","u","r","p"," ","a","r","c","h","i","v","e",".">>,
             <<"#"," ","T","h","e"," ","p","a","y","l","o","a","d"," ","i","s"," ","A","E","S","-","2","5","6","-","G","C","M"," ","e","n","c","r","y","p","t","e","d"," ","(","P","B","K","D","F","2"," ","k","e","y"," ","d","e","r","i","v","a","t","i","o","n",")",".">>,
             <<"#"," ","U","s","e",":"," ","s","l","u","r","p"," ","d","e","c","r","y","p","t"," ","<","a","r","c","h","i","v","e",">"," ","t","o"," ","d","e","c","r","y","p","t",".">>,
             <<"#">>,
             <<"#"," ","n","a","m","e",":"," ">> \o name,
             <<"#"," ","o","r","i","g","i","n","a","l",":"," ">> \o digits(originalSize) \o <<" ","b","y","t","e","s">>,
             <<"#"," ","e","n","c","r","y","p","t","e","d",":"," ">> \o digits(Len(b64)) \o <<" ","b","y","t","e","s">>,
             <<"#"," ","s","h","a","2","5","6",":"," ">> \o checksum,
             <<"#"," ","i","t","e","r","a","t","i","o","n","s",":"," ">> \o digits(iterations),
             <<>>,
             PAYLOAD,
             wrapped,
             END_PAYLOAD,
             <<>> >>, <<NL>>)

\* line.match(/^# iterations:\s*(\d+)/)
iterMatch(line) ==
  IF ~startsWith(line, <<"#"," ","i","t","e","r","a","t","i","o","n","s",":">>) THEN [hit |-> FALSE]
  ELSE LET rest == dropFirst(line, 13)
           num == dropFirst(rest, leadingSpaces(rest))
           n == IF \A i \in 1..Len(num) : IsDigit(num[i]) THEN Len(num)
                ELSE (CHOOSE i \in 1..Len(num) :
                        ~IsDigit(num[i]) /\ \A j \in 1..(i - 1) : IsDigit(num[j])) - 1
       IN IF n >= 1 THEN [hit |-> TRUE, val |-> parseDigits(SubSeq(num, 1, n), 0)]
          ELSE [hit |-> FALSE]

RECURSIVE iterationsOf(_, _, _)
\* the header loop of decrypt runs over every line of the content
iterationsOf(lines, i, iterations) ==
  IF i > Len(lines) THEN iterations
  ELSE LET m == iterMatch(lines[i])
       IN iterationsOf(lines, i + 1, IF m.hit THEN m.val ELSE iterations)

\* openPayload that passes on what the cipher threw
openPayloadBare(payload, password, iterations, failure) ==
  LET salt == SubSeq(payload, 1, 16)
      iv == SubSeq(payload, 17, 28)
      authTag == SubSeq(payload, 29, 44)
      encrypted == SubSeq(payload, 45, Len(payload))
      key == pbkdf2Sync(password, salt, iterations)
  IN gcmDecrypt(key, iv, authTag, encrypted)

\* openPayload with the nonce read one byte early
openPayloadShifted(payload, password, iterations, failure) ==
  LET salt == SubSeq(payload, 1, 16)
      iv == SubSeq(payload, 16, 27)
      authTag == SubSeq(payload, 29, 44)
      encrypted == SubSeq(payload, 45, Len(payload))
      key == pbkdf2Sync(password, salt, iterations)
      decrypted == gcmDecrypt(key, iv, authTag, encrypted)
  IN IF decrypted.ok THEN decrypted ELSE Throw(failure)

\* the part of decrypt and decryptRaw after the length check
openPayload(payload, password, iterations, failure) ==
  LET salt == SubSeq(payload, 1, 16)
      iv == SubSeq(payload, 17, 28)
      authTag == SubSeq(payload, 29, 44)
      encrypted == SubSeq(payload, 45, Len(payload))
      key == pbkdf2Sync(password, salt, iterations)
      decrypted == gcmDecrypt(key, iv, authTag, encrypted)
  IN IF decrypted.ok THEN decrypted ELSE Throw(failure)

\* decrypt with the length of the payload checked before its checksum
decryptLengthFirst(content, password) ==
  LET lines == split(content)
      iterations == iterationsOf(lines, 1, 100000)
      expectedChecksum == checksumBefore(lines, 1, {}, <<>>)
      mk == payloadMarkers(lines, OLD_V3_START, OLD_V3_END)
      b64 == Concat(SubSeq(lines, mk.startIdx + 1, mk.endIdx - 1))
      payload == base64Decode(b64)
      decrypted == openPayload(payload, password, iterations,
                               "decryption failed: wrong password or corrupted archive")
      inner == gunzipSync(decrypted.val)
  IN IF ~isEncrypted(content) THEN Throw("not a v3 encrypted archive")
     ELSE IF mk.startIdx = 0 \/ mk.endIdx = 0
     THEN Throw("invalid v3 archive: missing payload markers")
     ELSE IF Len(payload) < 44 THEN Throw("invalid v3 archive: payload too short")
     ELSE IF expectedChecksum # <<>> /\ sha256(payload) # expectedChecksum
     THEN Mismatch(expectedChecksum, sha256(payload))
     ELSE IF ~decrypted.ok THEN decrypted
     ELSE IF ~inner.ok THEN inner
     ELSE Ok(utf8String(inner.val))

decrypt(content, password) ==
  LET lines == split(content)
      iterations == iterationsOf(lines, 1, 100000)
      expectedChecksum == checksumBefore(lines, 1, {}, <<>>)
      mk == payloadMarkers(lines, OLD_V3_START, OLD_V3_END)
      b64 == Concat(SubSeq(lines, mk.startIdx + 1, mk.endIdx - 1))
      payload == base64Decode(b64)
      decrypted == openPayload(payload, password, iterations,
                               "decryption failed: wrong password or corrupted archive")
      inner == gunzipSync(decrypted.val)
  IN IF ~isEncrypted(content) THEN Throw("not a v3 encrypted archive")
     ELSE IF mk.startIdx = 0 \/ mk.endIdx = 0
     THEN Throw("invalid v3 archive: missing payload markers")
     ELSE IF expectedChecksum # <<>> /\ sha256(payload) # expectedChecksum
     THEN Mismatch(expectedChecksum, sha256(payload))
     ELSE IF Len(payload) < 44 THEN Throw("invalid v3 archive: payload too short")
     ELSE IF ~decrypted.ok THEN decrypted
     ELSE IF ~inner.ok THEN inner
     ELSE Ok(utf8String(inner.val))

\* encryptRaw with a salt and a nonce that are the same in every call
encryptRawStale(inputBuffer, password, salt, iv) ==
  LET salt0 == [i \in 1..16 |-> 0]
      iv0 == [i \in 1..12 |-> 0]
      key == pbkdf2Sync(password, salt0, 100000)
      encrypted == gcmEncrypt(key, iv0, inputBuffer)
      authTag == gcmTag(key, iv0, encrypted)
  IN salt0 \o iv0 \o authTag \o encrypted

encryptRaw(inputBuffer, password, salt, iv) ==
  LET key == pbkdf2Sync(password, salt, 100000)
      encrypted == gcmEncrypt(key, iv, inputBuffer)
      authTag == gcmTag(key, iv, encrypted)
  IN salt \o iv \o authTag \o encrypted

\* decryptRaw without the length check: the cipher is set up on whatever is there
decryptRawUnguarded(inputBuffer, password) ==
  IF Len(inputBuffer) < 44
  THEN Throw("decryption failed: wrong password or corrupted data")
  ELSE openPayload(inputBuffer, password, 100000,
                   "decryption failed: wrong password or corrupted data")

decryptRaw(inputBuffer, password) ==
  IF Len(inputBuffer) < 44 THEN Throw("input too short to be encrypted data")
  ELSE openPayload(inputBuffer, password, 100000,
                   "decryption failed: wrong password or corrupted data")

(***************************************************************************)
(* parseArchive                                                            *)
(***************************************************************************)
\* opts.password is falsy when it is missing and when it is the empty string
noPassword(opts) == ~opts.hasPassword \/ opts.password = <<>>

\* parseArchive on the text read from the archive file.  content runs through the
\* three steps of the function; besides the outcome the record lists the calls made
\* so far, in order.
called(r, calls) ==
  IF r.ok THEN [ok |-> TRUE, val |-> r.val, calls |-> calls]
  ELSE [ok |-> FALSE, err |-> r.err, calls |-> calls]

\* peelEncrypted without the test of opts.password before decrypt is called
peelEncryptedUnasked(content, opts) ==
  IF isEncrypted(content) THEN called(decrypt(content, opts.password), <<"decrypt">>)
  ELSE [ok |-> TRUE, val |-> content, calls |-> <<>>]

\* if (isEncrypted(content)) { ... content = decrypt(content, opts.password) }
peelEncrypted(content, opts) ==
  IF isEncrypted(content)
  THEN IF noPassword(opts)
       THEN [ok |-> FALSE, err |-> "archive is encrypted: password required", calls |-> <<>>]
       ELSE called(decrypt(content, opts.password), <<"decrypt">>)
  ELSE [ok |-> TRUE, val |-> content, calls |-> <<>>]

\* if (isCompressed(content)) content = decompress(content)
peelCompressed(r) ==
  IF r.ok /\ isCompressed(r.val)
  THEN called(decompress(r.val), r.calls \o <<"decompress">>)
  ELSE r

\* return parseContent(content); parsed is the text handed to parseContent
codec(r) ==
  IF r.ok
  THEN [ok |-> TRUE, val |-> parseContent(r.val), parsed |-> r.val,
        calls |-> r.calls \o <<"parseContent">>]
  ELSE r

parseArchive(content, opts) == codec(peelCompressed(peelEncrypted(content, opts)))

(***************************************************************************)
(* path and fs of Node.js on POSIX.  A resolved path is the sequence of    *)
(* its segments below the root; the disk holds the directories and the     *)
(* files (path and bytes) that exist.                                      *)
(***************************************************************************)
isAbsolute(p) == startsWith(p, <<"/">>)

RECURSIVE walk(_, _)
\* the segments of a path followed from the directory at: '' and '.' stay, '..' goes up
walk(at, segs) ==
  IF segs = <<>> THEN at
  ELSE LET h == Head(segs)
           next == IF h = <<>> \/ h = <<".">> THEN at
                   ELSE IF h = <<".",".">> THEN (IF at = <<>> THEN at ELSE dropLast(at, 1))
                   ELSE Append(at, h)
       IN walk(next, Tail(segs))

\* path.resolve(base, p) for a resolved base
resolve(base, p) == walk(IF isAbsolute(p) THEN <<>> ELSE base, splitOn(p, "/"))

\* path.join(base, p) for a resolved base: normalize(base + '/' + p)
pathJoin(base, p) == walk(base, splitOn(p, "/"))

\* path.dirname(p): p up to the last '/' that is not at index 0 and is followed by a
\* character other than '/'
dirname(p) ==
  LET ends == {i \in 2..Len(p) : p[i] = "/" /\ \E j \in (i + 1)..Len(p) : p[j] # "/"}
  IN IF p = <<>> THEN <<".">>
     ELSE IF ends = {} THEN (IF isAbsolute(p) THEN <<"/">> ELSE <<".">>)
     ELSE SubSeq(p, 1, (CHOOSE i \in ends : \A j \in ends : j <= i) - 1)

isFile(disk, at) == \E f \in disk.files : f[1] = at
isDir(disk, at) == at \in disk.dirs
prefixes(at) == {SubSeq(at, 1, k) : k \in 0..Len(at)}

\* fs.mkdirSync(dir, { recursive: true }) of the resolved directory at
mkdirSync(disk, at) ==
  IF \E d \in prefixes(at) : isFile(disk, d) THEN Throw("EEXIST")
  ELSE Ok([disk EXCEPT !.dirs = @ \cup prefixes(at)])

\* fs.writeFileSync(p, data), p resolving to at
writeFileSync(disk, p, at, data) ==
  IF at = <<>> \/ isDir(disk, at) \/ endsWith(p, <<"/">>) THEN Throw("EISDIR")
  ELSE IF ~isDir(disk, dropLast(at, 1)) THEN Throw("ENOENT")
  ELSE Ok([disk EXCEPT !.files = {f \in @ : f[1] # at} \cup {<<at, data>>}])

\* fs.existsSync(p) and fs.readFileSync(p), p resolving to at
existsSync(disk, at) == isFile(disk, at) \/ isDir(disk, at)
readFileSync(disk, at) == (CHOOSE f \in disk.files : f[1] = at)[2]

\* the bytes apply and unpack write for one parsed file
writtenBytes(f) ==
  IF f.binary THEN f.content
  ELSE utf8Bytes(IF endsWith(f.content, <<NL>>) THEN f.content ELSE f.content \o <<NL>>)

(***************************************************************************)
(* apply and unpack                                                        *)
(***************************************************************************)
NoOpts == [hasPassword |-> FALSE, password |-> <<>>]

RECURSIVE applyFilesAsParsed(_, _, _, _)
\* the loop of apply writing text as it was parsed, with no newline added
applyFilesAsParsed(files, i, disk, cwd) ==
  IF i > Len(files) THEN [ok |-> TRUE, disk |-> disk]
  ELSE LET f == files[i]
           dir == dirname(f.path)
           made == IF dir # <<>> /\ dir # <<".">> THEN mkdirSync(disk, resolve(cwd, dir))
                   ELSE Ok(disk)
           wrote == writeFileSync(made.val, f.path, resolve(cwd, f.path), (IF f.binary THEN f.content ELSE utf8Bytes(f.content)))
       IN IF ~made.ok THEN [ok |-> FALSE, err |-> made.err, disk |-> disk]
          ELSE IF ~wrote.ok THEN [ok |-> FALSE, err |-> wrote.err, disk |-> made.val]
          ELSE applyFilesAsParsed(files, i + 1, wrote.val, cwd)

RECURSIVE applyFiles(_, _, _, _)
\* the loop of apply over the parsed files from index i on, run in the directory cwd
applyFiles(files, i, disk, cwd) ==
  IF i > Len(files) THEN [ok |-> TRUE, disk |-> disk]
  ELSE LET f == files[i]
           dir == dirname(f.path)
           made == IF dir # <<>> /\ dir # <<".">> THEN mkdirSync(disk, resolve(cwd, dir))
                   ELSE Ok(disk)
           wrote == writeFileSync(made.val, f.path, resolve(cwd, f.path), writtenBytes(f))
       IN IF ~made.ok THEN [ok |-> FALSE, err |-> made.err, disk |-> disk]
          ELSE IF ~wrote.ok THEN [ok |-> FALSE, err |-> wrote.err, disk |-> made.val]
          ELSE applyFiles(files, i + 1, wrote.val, cwd)

\* apply after its parseArchive call has given parsed
applyParsed(parsed, disk, cwd) ==
  IF ~parsed.ok THEN [ok |-> FALSE, err |-> parsed.err, disk |-> disk]
  ELSE applyFiles(parsed.val.files, 1, disk, cwd)

\* apply(archivePath) on the text of the archive file
apply(content, disk, cwd) == applyParsed(parseArchive(content, NoOpts), disk, cwd)

\* fs.readFileSync(p) where p may be a directory
readFileOrThrow(disk, at) ==
  IF isDir(disk, at) THEN Throw("EISDIR") ELSE Ok(readFileSync(disk, at))

RECURSIVE verifyFiles(_, _, _, _, _, _)
\* the loop of verify over the parsed files from index i on: fail counts the failures
\* so far and log holds the lines printed so far
verifyFiles(files, i, disk, cwd, fail, log) ==
  IF i > Len(files) THEN [ok |-> TRUE, val |-> (fail = 0), fail |-> fail, log |-> log]
  ELSE LET f == files[i]
           at == resolve(cwd, f.path)
           ondisk == readFileOrThrow(disk, at)
       IN IF ~existsSync(disk, at)
          THEN verifyFiles(files, i + 1, disk, cwd, fail + 1,
                           Append(log, [line |-> "MISSING", path |-> f.path]))
          ELSE IF ~ondisk.ok THEN [ok |-> FALSE, err |-> ondisk.err, log |-> log]
          ELSE IF ondisk.val # writtenBytes(f)
          THEN verifyFiles(files, i + 1, disk, cwd, fail + 1,
                           Append(log, [line |-> "MISMATCH", path |-> f.path]))
          ELSE verifyFiles(files, i + 1, disk, cwd, fail,
                           Append(log, [line |-> "OK", path |-> f.path]))

\* verify that also holds every file against the checksum the manifest records for it
verifyParsedAgainstManifest(parsed, disk, cwd) ==
  IF ~parsed.ok THEN [ok |-> FALSE, err |-> parsed.err, log |-> <<>>]
  ELSE IF \E i \in 1..Len(parsed.val.files) :
            LET f == parsed.val.files[i]
            IN /\ has(parsed.val.checksums, f.path)
               /\ get(parsed.val.checksums, f.path) # SubSeq(sha256(writtenBytes(f)), 1, 16)
       THEN [ok |-> FALSE, err |-> "manifest mismatch", log |-> <<>>]
  ELSE verifyFiles(parsed.val.files, 1, disk, cwd, 0, <<>>)

\* verify after its parseArchive call has given parsed
verifyParsed(parsed, disk, cwd) ==
  IF ~parsed.ok THEN [ok |-> FALSE, err |-> parsed.err, log |-> <<>>]
  ELSE verifyFiles(parsed.val.files, 1, disk, cwd, 0, <<>>)

\* verify(archivePath) on the text of the archive file
verify(content, disk, cwd) == verifyParsed(parseArchive(content, NoOpts), disk, cwd)

RECURSIVE unpackFiles(_, _, _, _)
\* the loop of unpack over the parsed files from index i on
unpackFiles(files, i, disk, stagingDir) ==
  IF i > Len(files) THEN [ok |-> TRUE, disk |-> disk, stagingDir |-> stagingDir]
  ELSE LET f == files[i]
           dest == pathJoin(stagingDir, f.path)
           dir == dropLast(dest, IF dest = <<>> THEN 0 ELSE 1)
           made == IF dir # stagingDir THEN mkdirSync(disk, dir) ELSE Ok(disk)
           wrote == writeFileSync(made.val, f.path, dest, writtenBytes(f))
       IN IF ~made.ok
          THEN [ok |-> FALSE, err |-> made.err, disk |-> disk, stagingDir |-> stagingDir]
          ELSE IF ~wrote.ok
          THEN [ok |-> FALSE, err |-> wrote.err, disk |-> made.val, stagingDir |-> stagingDir]
          ELSE unpackFiles(files, i + 1, wrote.val, stagingDir)

\* metadata.name || 'archive'
nameOf(metadata) ==
  IF has(metadata, <<"n","a","m","e">>) /\ get(metadata, <<"n","a","m","e">>) # <<>>
  THEN get(metadata, <<"n","a","m","e">>) ELSE <<"a","r","c","h","i","v","e">>

\* the staging directory: opts.output || path.resolve(`${name}.${rand}.unslurp`)
stagingOf(metadata, cwd, output, rand) ==
  IF output # <<>> THEN resolve(cwd, output)
  ELSE resolve(cwd, nameOf(metadata) \o <<".">> \o rand \o <<".","u","n","s","l","u","r","p">>)

\* unpack from fs.mkdirSync(stagingDir) on, made being what that call gave
unpackInto(files, made, disk, stagingDir) ==
  IF ~made.ok THEN [ok |-> FALSE, err |-> made.err, disk |-> disk, stagingDir |-> stagingDir]
  ELSE unpackFiles(files, 1, made.val, stagingDir)

unpackStaged(files, disk, stagingDir) ==
  unpackInto(files, mkdirSync(disk, stagingDir), disk, stagingDir)

\* unpack after its parseArchive call has given parsed
unpackParsed(parsed, disk, cwd, output, rand) ==
  IF ~parsed.ok THEN [ok |-> FALSE, err |-> parsed.err, disk |-> disk, stagingDir |-> <<>>]
  ELSE unpackStaged(parsed.val.files, disk,
                    stagingOf(parsed.val.metadata, cwd, output, rand))

\* unpack(archivePath, opts) on the text of the archive file; output is opts.output
\* (<<>> when absent), rand the hex of crypto.randomBytes(4)
unpack(content, disk, cwd, output, rand) ==
  unpackParsed(parseArchive(content, NoOpts), disk, cwd, output, rand)

(***************************************************************************)
(* The command line: pack, encrypt, decrypt, enc, dec.  A value that may   *)
(* be undefined (a flag not given, an unset environment variable) is Null  *)
(* or Str(s).                                                              *)
(***************************************************************************)
Null == [given |-> FALSE]
Str(s) == [given |-> TRUE, val |-> s]

\* the truthiness of a string or undefined
truthy(x) == x.given /\ x.val # <<>>

\* a || b with the arguments swapped
envFirst(a, b) == IF truthy(b) THEN b ELSE a

\* a || b
orElse(a, b) == IF truthy(a) THEN a ELSE b

\* console.error(message); process.exit(code), and an exception nobody catches
Exit(code, message) == [code |-> code, stderr |-> message, stdout |-> <<>>, files |-> {}]

\* if (outputFile) fs.writeFileSync(outputFile, data) else process.stdout.write(data)
emit(data, outputFile) ==
  IF truthy(outputFile)
  THEN [code |-> 0, stderr |-> "wrote", stdout |-> <<>>, files |-> {<<outputFile.val, data>>}]
  ELSE [code |-> 0, stderr |-> "", stdout |-> <<data>>, files |-> {}]

RECURSIVE lessPath(_, _)
\* a.localeCompare(b) < 0 for paths of lower-case letters, ' ' and '/', which are
\* collated in the order of their character codes
lessPath(a, b) ==
  IF b = <<>> THEN FALSE
  ELSE IF a = <<>> THEN TRUE
  ELSE IF Head(a) # Head(b) THEN OrdOf[Head(a)] < OrdOf[Head(b)]
  ELSE lessPath(Tail(a), Tail(b))

\* allFiles.filter(f => !seen.has(f.relPath) ...): the first file of every relPath
dedupe(allFiles) ==
  LET keep == {i \in 1..Len(allFiles) :
                 \A j \in 1..(i - 1) : allFiles[j].relPath # allFiles[i].relPath}
      pick[k \in 0..Len(allFiles)] ==
        IF k = 0 THEN <<>>
        ELSE IF k \in keep THEN Append(pick[k - 1], allFiles[k]) ELSE pick[k - 1]
  IN pick[Len(allFiles)]

\* allFiles.sort((a, b) => a.relPath.localeCompare(b.relPath)) of files with distinct
\* relPaths
sortByRelPath(allFiles) ==
  LET n == Len(allFiles)
      rank(i) == Cardinality({j \in 1..n : lessPath(allFiles[j].relPath, allFiles[i].relPath)}) + 1
  IN [k \in 1..n |-> allFiles[CHOOSE i \in 1..n : rank(i) = k]]

\* the pack command from the collected files on; collected is what the targets gave
cliPack(collected, opts, env, prompt, now, salt, iv) ==
  LET allFiles == sortByRelPath(dedupe(collected))
      output == pack(allFiles, opts, prompt, now)
      pw == orElse(opts.password, env)
  IN IF Len(allFiles) = 0 THEN Exit(1, "error: no files found to archive")
     ELSE IF opts.encrypt
     THEN IF ~truthy(pw)
          THEN Exit(1, "error: password required for encryption (use -p or SLURP_PASSWORD env var)")
          ELSE emit(encrypt(output, pw.val, opts, salt, iv), opts.output)
     ELSE IF opts.compress THEN emit(compress(output, opts), opts.output)
     ELSE emit(output, opts.output)

\* content.split('\n').find(l => l.match(/^# name:\s/)), and
\* nameLine.replace(/^# name:\s*/, '')
archiveNameOf(content) ==
  LET lines == split(content)
      named == {i \in 1..Len(lines) :
                  /\ startsWith(lines[i], <<"#"," ","n","a","m","e",":">>)
                  /\ Len(lines[i]) >= 8
                  /\ IsSpace(lines[i][8])}
      first == CHOOSE i \in named : \A j \in named : i <= j
      rest == dropFirst(lines[first], 7)
  IN IF named = {} THEN <<"a","r","c","h","i","v","e">> ELSE dropFirst(rest, leadingSpaces(rest))

\* the encrypt command; file is the text of the archive named on the command line
cliEncrypt(file, flag, env, outputFile, salt, iv) ==
  LET pw == orElse(flag, env)
      opened == IF isCompressed(file.val) THEN decompress(file.val) ELSE Ok(file.val)
  IN IF ~file.given THEN Exit(1, "error: no archive specified")
     ELSE IF ~truthy(pw) THEN Exit(1, "error: password required (use -p or SLURP_PASSWORD env var)")
     ELSE IF ~opened.ok THEN Exit(1, opened.err)
     ELSE IF isEncrypted(opened.val) THEN Exit(1, "error: archive is already encrypted")
     ELSE emit(encrypt(opened.val, pw.val, [name |-> archiveNameOf(opened.val)], salt, iv),
               outputFile)

\* the decrypt command
cliDecrypt(file, flag, env, outputFile) ==
  LET pw == orElse(flag, env)
      decrypted == decrypt(file.val, pw.val)
  IN IF ~file.given THEN Exit(1, "error: no archive specified")
     ELSE IF ~truthy(pw) THEN Exit(1, "error: password required (use -p or SLURP_PASSWORD env var)")
     ELSE IF ~isEncrypted(file.val) THEN Exit(1, "error: archive is not encrypted")
     ELSE IF ~decrypted.ok THEN Exit(1, decrypted.err)
     ELSE emit(decrypted.val, outputFile)

\* the enc command; input is the bytes of the input file or of stdin
cliEnc(input, flag, env, outputFile, salt, iv) ==
  LET pw == orElse(flag, env)
  IN IF ~truthy(pw) THEN Exit(1, "error: password required (use -p or SLURP_PASSWORD env var)")
     ELSE emit(encryptRaw(input, pw.val, salt, iv), outputFile)

\* the dec command
cliDec(input, flag, env, outputFile) ==
  LET pw == orElse(flag, env)
      out == decryptRaw(input, pw.val)
  IN IF ~truthy(pw) THEN Exit(1, "error: password required (use -p or SLURP_PASSWORD env var)")
     ELSE IF ~out.ok THEN Exit(1, out.err)
     ELSE emit(out.val, outputFile)

(***************************************************************************)
(* State                                                                   *)
(***************************************************************************)
VARIABLES
  fileList,   \* the files handed to pack: relPath and the bytes read from fullPath
  packOpts,   \* the options handed to pack
  inner,      \* the archive text handed to compress or encrypt
  archive,    \* the text of the archive file
  secret,     \* the password the archive was encrypted with
  pristine,   \* the text of the archive file as compress or encrypt wrote it
  raw,        \* the buffers of encryptRaw: plain and sealed
  query,      \* candidate and base handed to the path guard
  disk,       \* the directories and files that exist
  result      \* the last operation and its outcome

vars == <<fileList, packOpts, inner, archive, secret, pristine, raw, query, disk, result>>

\* the working directory /w
Cwd == << <<"w">> >>

EmptyDisk == [files |-> {}, dirs |-> prefixes(Cwd)]

Idle ==
  /\ fileList = <<>>
  /\ packOpts = [name |-> <<>>, description |-> <<>>, noChecksum |-> FALSE]
  /\ inner = <<>>
  /\ archive = <<>>
  /\ secret = <<>>
  /\ pristine = <<>>
  /\ raw = [plain |-> <<>>, sealed |-> <<>>]
  /\ query = [candidate |-> <<>>, base |-> <<>>]
  /\ disk = EmptyDisk
  /\ result = [op |-> "init"]

(***************************************************************************)
(* Inputs                                                                  *)
(***************************************************************************)
MaxFiles == 2

PackPaths == { <<"p">>, <<"d","/","q">>, <<".",".","/","p">>, <<"/","p">> }

PackContents ==
  { utf8Bytes(<<"x">>), utf8Bytes(<<"x","\n">>), utf8Bytes(<<"x","\n","\n">>),
    utf8Bytes(<<"a","\n","=","=","="," ","E","N","D"," ","p"," ","=","=","=","\n","b","\n">>), <<0, 255, 10>> }

PackFiles == {[relPath |-> p, content |-> c] : p \in PackPaths, c \in PackContents}

\* the lists of at most MaxFiles files with pairwise distinct paths
FileLists ==
  UNION {{fl \in [1..n -> PackFiles] :
            \A i, j \in 1..n : i # j => fl[i].relPath # fl[j].relPath} : n \in 0..MaxFiles}

PackOptions ==
  { [name |-> <<>>, description |-> <<>>, noChecksum |-> FALSE],
    [name |-> <<"n">>, description |-> <<"d"," ","e">>, noChecksum |-> FALSE],
    [name |-> <<"n">>, description |-> <<>>, noChecksum |-> TRUE] }

\* what loadPrompt() may return: null, or the text of PROMPT.md
Prompts == { <<>>, <<"#"," ","s","l","u","r","p"," ","f","o","r","m","a","t","\n","\n","a"," ","s","l","u","r","p"," ","f","i","l","e">> }

Nows == { <<"2","0","2","6","-","0","1","-","0","1","T","0","0",":","0","0",":","0","0",".","0","0","0","Z">> }

Outputs == { <<>>, <<"o","u","t">> }

Rands == { <<"0","a","1","b","2","c","3","d">> }

(***************************************************************************)
(* pack, parseContent, apply and unpack as steps                           *)
(***************************************************************************)
Pack ==
  /\ result.op = "init"
  /\ \E prompt \in Prompts, now \in Nows :
       archive' = pack(fileList, packOpts, prompt, now)
  /\ result' = [op |-> "pack"]
  /\ UNCHANGED <<fileList, packOpts, inner, secret, pristine, raw, query, disk>>

ParseContent ==
  /\ result.op = "pack"
  /\ result' = [op |-> "parseContent", val |-> parseContent(archive)]
  /\ UNCHANGED <<fileList, packOpts, inner, archive, secret, pristine, raw, query, disk>>

Apply ==
  /\ result.op = "pack"
  /\ \E r \in {apply(archive, disk, Cwd)} :
       /\ disk' = r.disk
       /\ result' = [op |-> "apply", ok |-> r.ok, base |-> Cwd]
  /\ UNCHANGED <<fileList, packOpts, inner, archive, secret, pristine, raw, query>>

Unpack ==
  /\ result.op = "pack"
  /\ \E output \in Outputs, rand \in Rands :
       \E r \in {unpack(archive, disk, Cwd, output, rand)} :
         /\ disk' = r.disk
         /\ result' = [op |-> "unpack", ok |-> r.ok, base |-> r.stagingDir]
  /\ UNCHANGED <<fileList, packOpts, inner, archive, secret, pristine, raw, query>>

InitPack ==
  /\ fileList \in FileLists
  /\ packOpts \in PackOptions
  /\ inner = <<>>
  /\ archive = <<>>
  /\ secret = <<>>
  /\ pristine = <<>>
  /\ raw = [plain |-> <<>>, sealed |-> <<>>]
  /\ query = [candidate |-> <<>>, base |-> <<>>]
  /\ disk = EmptyDisk
  /\ result = [op |-> "init"]

NextPack == Pack \/ ParseContent \/ Apply \/ Unpack

SpecPack == InitPack /\ [][NextPack]_vars

(***************************************************************************)
(* Properties of pack, parseContent, apply and unpack (SpecPack)           *)
(***************************************************************************)
stripOne(text) == IF endsWith(text, <<NL>>) THEN dropLast(text, 1) ELSE text

\* the parsed file that stands for the packed file f
sameEntry(parsedFile, f) ==
  /\ parsedFile.path = f.relPath
  /\ parsedFile.binary = isBinary(f.content)
  /\ IF parsedFile.binary THEN parsedFile.content = f.content
     ELSE parsedFile.content = stripOne(utf8String(f.content))

sameMeta(metadata, key, passed) ==
  passed # <<>> => has(metadata, key) /\ get(metadata, key) = passed

\* C1: parseContent(pack(entries, opts)) returns one file per entry, in the same
\* order, with the same path and binary flag, binary content byte-identical, text
\* content the original less one trailing newline, and the name and description
\* passed to pack.
RoundTrip ==
  result.op = "parseContent" =>
    /\ Len(result.val.files) = Len(fileList)
    /\ \A i \in 1..Len(fileList) : sameEntry(result.val.files[i], fileList[i])
    /\ sameMeta(result.val.metadata, <<"n","a","m","e">>, packOpts.name)
    /\ sameMeta(result.val.metadata, <<"d","e","s","c","r","i","p","t","i","o","n">>, packOpts.description)

\* at lies inside the directory base
inside(base, at) == Len(at) > Len(base) /\ SubSeq(at, 1, Len(base)) = base

\* C2: after apply (base the working directory) or unpack (base the staging
\* directory) every file written lies inside the base directory.
WritesStayInsideBase ==
  result.op \in {"apply", "unpack"} => \A f \in disk.files : inside(result.base, f[1])

\* where extraction puts the entry with path p
destOf(p) == IF result.op = "apply" THEN resolve(Cwd, p) ELSE pathJoin(result.base, p)

\* C10: pack followed by apply or unpack writes, for every entry, a file whose bytes
\* equal the original file's bytes.
ExtractionRestoresBytes ==
  (result.op \in {"apply", "unpack"} /\ result.ok) =>
    \A i \in 1..Len(fileList) :
      /\ isFile(disk, destOf(fileList[i].relPath))
      /\ readFileSync(disk, destOf(fileList[i].relPath)) = fileList[i].content

(***************************************************************************)
(* compress, encrypt, a change to the payload body, decompress and decrypt *)
(* as steps (SpecWrap)                                                     *)
(***************************************************************************)
MaxDelta == 1

V1Sample ==
  <<"#","!","/","b","i","n","/","s","h","\n","#"," ","-","-","-"," ","S","L","U","R","P"," ","v","1"," ","-","-","-","\n","#"," ","n","a","m","e",":"," ","n","\n","s","e","t"," ","-","e","\n","c","a","t"," ",">"," ","'","p","'"," ","<","<"," ","'","S","L","U","R","P","_","E","N","D","_","p","'","\n","x","\n","S","L","U","R","P","_","E","N","D","_","p","\n">>

V4Empty == pack(<<>>, [name |-> <<>>, description |-> <<>>, noChecksum |-> FALSE], <<>>, <<"2","0","2","6">>)

WrapInners == { <<>>, V1Sample, V4Empty }

Passwords == { <<>>, <<"p">>, <<"p", NUL>> }

Salts == { [i \in 1..16 |-> i], [i \in 1..16 |-> 255 - i] }

Ivs == { [i \in 1..12 |-> 7 * i] }

RawBuffers == { <<>>, <<1, 2, 3>> }

WrapNames == { <<>>, <<"n">> }

\* the indexes of the base64 characters between the payload markers of text
bodyPositions(text) ==
  LET lines == split(text)
      s == indexOf(lines, PAYLOAD, 1)
      e == indexOf(lines, END_PAYLOAD, s + 1)
      first == Len(join(SubSeq(lines, 1, s), <<NL>>)) + 2
      last == Len(join(SubSeq(lines, 1, e - 1), <<NL>>))
  IN {i \in first..last : text[i] \in B64Set}

\* the bytes the payload body of text decodes to
payloadOf(text) ==
  LET lines == split(text)
      s == indexOf(lines, PAYLOAD, 1)
      e == indexOf(lines, END_PAYLOAD, s + 1)
  IN base64Decode(Concat(SubSeq(lines, s + 1, e - 1)))

Compress ==
  /\ result.op = "init"
  /\ \E name \in WrapNames :
       \E w \in {compress(inner, [name |-> name])} : archive' = w /\ pristine' = w
  /\ result' = [op |-> "compress"]
  /\ UNCHANGED <<fileList, packOpts, inner, secret, raw, query, disk>>

Encrypt ==
  /\ result.op = "init"
  /\ \E password \in Passwords, salt \in Salts, iv \in Ivs :
       \E w \in {encrypt(inner, password, [name |-> <<>>], salt, iv)} :
         archive' = w /\ pristine' = w /\ secret' = password
  /\ result' = [op |-> "encrypt"]
  /\ UNCHANGED <<fileList, packOpts, inner, raw, query, disk>>

\* one base64 character of the payload body is replaced by another one
Tamper ==
  /\ result.op \in {"compress", "encrypt"}
  /\ archive = pristine
  /\ \E i \in bodyPositions(archive), d \in 1..MaxDelta :
       archive' = [archive EXCEPT ![i] = B64[((B64Val[@] + d) % 64) + 1]]
  /\ UNCHANGED <<fileList, packOpts, inner, pristine, secret, raw, query, disk, result>>

Decompress ==
  /\ result.op = "compress"
  /\ result' = [op |-> "decompress", out |-> decompress(archive)]
  /\ UNCHANGED <<fileList, packOpts, inner, archive, pristine, secret, raw, query, disk>>

Decrypt ==
  /\ result.op = "encrypt"
  /\ \E password \in Passwords :
       result' = [op |-> "decrypt", password |-> password, out |-> decrypt(archive, password)]
  /\ UNCHANGED <<fileList, packOpts, inner, archive, pristine, secret, raw, query, disk>>

EncryptRaw ==
  /\ result.op = "init"
  /\ \E inputBuffer \in RawBuffers, password \in Passwords, salt \in Salts, iv \in Ivs :
       /\ raw' = [plain |-> inputBuffer, sealed |-> encryptRaw(inputBuffer, password, salt, iv)]
       /\ secret' = password
  /\ result' = [op |-> "encryptRaw"]
  /\ UNCHANGED <<fileList, packOpts, inner, archive, pristine, query, disk>>

DecryptRaw ==
  /\ result.op = "encryptRaw"
  /\ \E password \in Passwords :
       result' = [op |-> "decryptRaw", password |-> password,
                  out |-> decryptRaw(raw.sealed, password)]
  /\ UNCHANGED <<fileList, packOpts, inner, archive, pristine, secret, raw, query, disk>>

InitWrap ==
  /\ fileList = <<>>
  /\ packOpts = [name |-> <<>>, description |-> <<>>, noChecksum |-> FALSE]
  /\ inner \in WrapInners
  /\ archive = <<>>
  /\ pristine = <<>>
  /\ secret = <<>>
  /\ raw = [plain |-> <<>>, sealed |-> <<>>]
  /\ query = [candidate |-> <<>>, base |-> <<>>]
  /\ disk = EmptyDisk
  /\ result = [op |-> "init"]

NextWrap ==
  Compress \/ Encrypt \/ Tamper \/ Decompress \/ Decrypt \/ EncryptRaw \/ DecryptRaw

SpecWrap == InitWrap /\ [][NextWrap]_vars

(***************************************************************************)
(* Properties of the two wrappers (SpecWrap)                               *)
(***************************************************************************)
Tampered == archive # pristine

WrongPassword == "decryption failed: wrong password or corrupted archive"
WrongPasswordRaw == "decryption failed: wrong password or corrupted data"

\* C4: decrypt(encrypt(A, P), P) returns exactly A, for the empty password too.
DecryptRoundTrip ==
  (result.op = "decrypt" /\ ~Tampered /\ result.password = secret) => result.out = Ok(inner)

DecryptRoundTripSeen ==
  /\ result.op = "decrypt" /\ ~Tampered /\ result.password = secret
  /\ secret = <<>> /\ inner = V4Empty /\ result.out.ok

\* C5: decompress(compress(A)) returns exactly A, for a v4 and for a legacy A.
DecompressRoundTrip ==
  (result.op = "decompress" /\ ~Tampered) => result.out = Ok(inner)

DecompressRoundTripSeen ==
  result.op = "decompress" /\ ~Tampered /\ inner = V1Sample /\ result.out.ok

failsWith(out, err) == ~out.ok /\ out.err = err

\* C6 as claimed: with any password Q other than the password P of encrypt or
\* encryptRaw, decrypt and decryptRaw fail with their 'decryption failed' error.
OtherPasswordFails ==
  /\ (result.op = "decrypt" /\ ~Tampered /\ result.password # secret)
       => failsWith(result.out, WrongPassword)
  /\ (result.op = "decryptRaw" /\ result.password # secret)
       => failsWith(result.out, WrongPasswordRaw)

sameKey(p, q) == hmacKey(utf8Bytes(p)) = hmacKey(utf8Bytes(q))

\* C6 amended: with a password Q that is another HMAC key than the password P of
\* encrypt or encryptRaw, decrypt and decryptRaw fail with their 'decryption failed'
\* error and return nothing.
OtherKeyFails ==
  /\ (result.op = "decrypt" /\ ~Tampered /\ ~sameKey(result.password, secret))
       => failsWith(result.out, WrongPassword)
  /\ (result.op = "decryptRaw" /\ ~sameKey(result.password, secret))
       => failsWith(result.out, WrongPasswordRaw)

OtherKeyFailsSeen ==
  /\ result.op = "decrypt" /\ ~Tampered /\ ~sameKey(result.password, secret)
  /\ failsWith(result.out, WrongPassword)

\* the archive was unwrapped as its writer would: decompress, or decrypt with the
\* password of encrypt
Unwrapped ==
  result.op = "decompress" \/ (result.op = "decrypt" /\ result.password = secret)

\* C7 as claimed: after any single character of the base64 body is changed,
\* unwrapping fails.
TamperedNeverUnwraps == (Tampered /\ Unwrapped) => ~result.out.ok

IntegrityErrors ==
  {"checksum mismatch", "incorrect header check", "incorrect data check", WrongPassword}

\* C7 amended: after one base64 character of the body is replaced by another,
\* unwrapping returns exactly A when the body still decodes to the same bytes, and
\* fails with a checksum, gunzip or decryption error when it does not: it never
\* returns a string different from A.
TamperedNeverDiffers ==
  (Tampered /\ Unwrapped) =>
    IF payloadOf(archive) = payloadOf(pristine) THEN result.out = Ok(inner)
    ELSE ~result.out.ok /\ result.out.err \in IntegrityErrors

TamperedNeverDiffersSeen ==
  /\ Tampered /\ result.op = "decrypt" /\ result.password = secret
  /\ payloadOf(archive) # payloadOf(pristine)
  /\ failsWith(result.out, "checksum mismatch")

(***************************************************************************)
(* Reading an archive file (SpecRead)                                      *)
(***************************************************************************)
V4One ==
  pack(<<[relPath |-> <<"p">>, content |-> utf8Bytes(<<"x","\n">>)]>>,
       [name |-> <<"n">>, description |-> <<"d"," ","e">>, noChecksum |-> FALSE], <<>>, <<"2","0","2","6">>)

ReadInners == { V1Sample, V4Empty, V4One }

ReadOpts == {NoOpts} \cup {[hasPassword |-> TRUE, password |-> p] : p \in Passwords}

\* the archive file holds the plain archive
WritePlain ==
  /\ result.op = "init"
  /\ archive' = inner
  /\ pristine' = inner
  /\ result' = [op |-> "write"]
  /\ UNCHANGED <<fileList, packOpts, inner, secret, raw, query, disk>>

\* encrypt applied to the compressed archive
EncryptCompressed ==
  /\ result.op = "compress"
  /\ \E password \in Passwords, salt \in Salts, iv \in Ivs :
       \E w \in {encrypt(archive, password, [name |-> <<>>], salt, iv)} :
         archive' = w /\ pristine' = w /\ secret' = password
  /\ result' = [op |-> "encrypt"]
  /\ UNCHANGED <<fileList, packOpts, inner, raw, query, disk>>

ParseArchive ==
  /\ result.op \in {"write", "compress", "encrypt"}
  /\ \E opts \in ReadOpts :
       result' = [op |-> "parseArchive", opts |-> opts, out |-> parseArchive(archive, opts)]
  /\ UNCHANGED <<fileList, packOpts, inner, archive, pristine, secret, raw, query, disk>>

InitRead ==
  /\ fileList = <<>>
  /\ packOpts = [name |-> <<>>, description |-> <<>>, noChecksum |-> FALSE]
  /\ inner \in ReadInners
  /\ archive = <<>>
  /\ pristine = <<>>
  /\ secret = <<>>
  /\ raw = [plain |-> <<>>, sealed |-> <<>>]
  /\ query = [candidate |-> <<>>, base |-> <<>>]
  /\ disk = EmptyDisk
  /\ result = [op |-> "init"]

NextRead == WritePlain \/ Compress \/ Encrypt \/ EncryptCompressed \/ ParseArchive

SpecRead == InitRead /\ [][NextRead]_vars

\* C8: parseArchive returns the metadata, checksums and files of A for a file that
\* holds A, compress(A) or encrypt(A, P) read with opts.password = P, for every
\* password P that encrypt accepts, the empty one included.
LayersTransparent ==
  (/\ result.op = "parseArchive"
   /\ isEncrypted(archive) => (result.opts.hasPassword /\ result.opts.password = secret))
    => (result.out.ok /\ result.out.val = parseContent(inner))

PeelOrders ==
  { <<>>, <<"decrypt">>, <<"decompress">>, <<"parseContent">>,
    <<"decrypt", "decompress">>, <<"decrypt", "parseContent">>,
    <<"decompress", "parseContent">>, <<"decrypt", "decompress", "parseContent">> }

called_in(calls, name) == \E i \in 1..Len(calls) : calls[i] = name

\* C9: parseArchive peels in the order encrypted, compressed, codec: an encrypted
\* archive read without a password fails with 'password required' before anything
\* is called; decrypt is called first and only for an encrypted archive, decompress
\* after it, and parseContent last, on the fully unwrapped text.
PeelOrder ==
  result.op = "parseArchive" =>
    /\ (isEncrypted(archive) /\ noPassword(result.opts))
         => (/\ failsWith(result.out, "archive is encrypted: password required")
             /\ result.out.calls = <<>>)
    /\ result.out.calls \in PeelOrders
    /\ called_in(result.out.calls, "decrypt")
         <=> (isEncrypted(archive) /\ ~noPassword(result.opts))
    /\ called_in(result.out.calls, "parseContent") <=> result.out.ok
    /\ result.out.ok => (/\ result.out.parsed = inner
                         /\ result.out.val = parseContent(inner))

PeelOrderSeen ==
  /\ result.op = "parseArchive"
  /\ result.out.calls = <<"decrypt", "decompress", "parseContent">>
  /\ result.out.parsed = inner

(***************************************************************************)
(* The path guard (SpecPath)                                               *)
(***************************************************************************)
\* safePath(candidate, base) without segment walking: any '..' in the text is refused
safePathByText(candidate, base) ==
  IF isAbsolute(candidate)
       \/ \E i \in 1..(Len(candidate) - 1) : candidate[i] = "." /\ candidate[i + 1] = "."
  THEN Throw(<<"P","a","t","h"," ","t","r","a","v","e","r","s","a","l"," ","b","l","o","c","k","e","d">>)
  ELSE Ok(resolve(base, candidate))

\* safePath(candidate, base): the resolved path, or 'Path traversal blocked' for an
\* absolute candidate or one that resolves outside base
safePath(candidate, base) ==
  IF isAbsolute(candidate) THEN Throw(<<"P","a","t","h"," ","t","r","a","v","e","r","s","a","l"," ","b","l","o","c","k","e","d">>)
  ELSE IF resolve(base, candidate) = base \/ inside(base, resolve(base, candidate))
  THEN Ok(resolve(base, candidate))
  ELSE Throw(<<"P","a","t","h"," ","t","r","a","v","e","r","s","a","l"," ","b","l","o","c","k","e","d">>)

MaxSegs == 3

PathSegments == { <<".",".">>, <<".">>, <<"a">>, <<"b",".",".","c">> }

SegmentLists == UNION {[1..n -> PathSegments] : n \in 1..MaxSegs}

PathExamples ==
  { <<"f","o","o","/","b","a","r",".","t","x","t">>, <<"f","i","l","e",".","t","x","t">>, <<"f","o","o",".",".","b","a","r",".","t","x","t">>, <<"/","e","t","c","/","p","a","s","s","w","d">>,
    <<".",".","/",".",".","/",".",".","/","e","t","c","/","p","a","s","s","w","d">>, <<"f","o","o","/",".",".","/",".",".","/","e","t","c","/","s","h","a","d","o","w">>, <<".",".","/","x">> }

Candidates ==
  {join(l, <<"/">>) : l \in SegmentLists}
    \cup {<<"/">> \o join(l, <<"/">>) : l \in SegmentLists}
    \cup PathExamples

Bases == { << <<"t","m","p">>, <<"b","a","s","e">> >>, Cwd }

Guard ==
  /\ result.op = "init"
  /\ result' = [op |-> "safePath", out |-> safePath(query.candidate, query.base)]
  /\ UNCHANGED <<fileList, packOpts, inner, archive, pristine, secret, raw, query, disk>>

InitPath ==
  /\ fileList = <<>>
  /\ packOpts = [name |-> <<>>, description |-> <<>>, noChecksum |-> FALSE]
  /\ inner = <<>>
  /\ archive = <<>>
  /\ pristine = <<>>
  /\ secret = <<>>
  /\ raw = [plain |-> <<>>, sealed |-> <<>>]
  /\ query \in [candidate : Candidates, base : Bases]
  /\ disk = EmptyDisk
  /\ result = [op |-> "init"]

NextPath == Guard

SpecPath == InitPath /\ [][NextPath]_vars

RECURSIVE depthAfter(_, _)
\* how far below the base a walk over the segments ends, or -1 once it has left the base
depthAfter(segs, depth) ==
  IF segs = <<>> THEN depth
  ELSE LET h == Head(segs)
           d == IF h = <<>> \/ h = <<".">> THEN depth
                ELSE IF h = <<".",".">> THEN depth - 1
                ELSE depth + 1
       IN IF d < 0 THEN -1 ELSE depthAfter(Tail(segs), d)

escapes(candidate) == isAbsolute(candidate) \/ depthAfter(splitOn(candidate, "/"), 0) < 0

\* C3: safePath(candidate, base) throws 'Path traversal blocked' when the candidate
\* is absolute or leaves base on the way ('..', '../x', 'foo/../../etc/shadow'), and
\* otherwise returns resolve(base, candidate); '..' inside a file name, as in
\* 'foo..bar.txt', is accepted.
GuardBlocksTraversal ==
  result.op = "safePath" =>
    /\ IF escapes(query.candidate)
       THEN failsWith(result.out, <<"P","a","t","h"," ","t","r","a","v","e","r","s","a","l"," ","b","l","o","c","k","e","d">>)
       ELSE result.out = Ok(resolve(query.base, query.candidate))
    /\ query.candidate \in { <<".",".">>, <<".",".","/","x">>, <<"f","o","o","/",".",".","/",".",".","/","e","t","c","/","s","h","a","d","o","w">>, <<"/","e","t","c","/","p","a","s","s","w","d">> }
         => ~result.out.ok
    /\ query.candidate \in { <<"f","o","o",".",".","b","a","r",".","t","x","t">>, <<"b",".",".","c">>, <<"a","/","b",".",".","c">> }
         => result.out = Ok(query.base \o splitOn(query.candidate, "/"))

GuardBlocksTraversalSeen ==
  /\ result.op = "safePath"
  /\ query.candidate = <<"f","o","o",".",".","b","a","r",".","t","x","t">>
  /\ result.out = Ok(query.base \o << <<"f","o","o",".",".","b","a","r",".","t","x","t">> >>)

(***************************************************************************)
(* Legacy archives: packV1 of the test suite and parseContent (SpecLegacy) *)
(***************************************************************************)
\* the pieces pushed by packV1 for one entry
bodyLinesV1(e) ==
  LET marker == eofMarker(e.relPath)
      dir == dirname(e.relPath)
  IN (IF dir # <<>> /\ dir # <<".">> THEN << <<"m","k","d","i","r"," ","-","p"," ","'">> \o dir \o <<"'">> >> ELSE <<>>)
     \o (IF e.binary
         THEN << <<"b","a","s","e","6","4"," ","-","d"," ",">"," ","'">> \o e.relPath \o <<"'"," ","<","<"," ","'">> \o marker \o <<"'">>,
                 join(chunks(base64Encode(e.content), 76), <<NL>>) >>
         ELSE << <<"c","a","t"," ",">"," ","'">> \o e.relPath \o <<"'"," ","<","<"," ","'">> \o marker \o <<"'">>,
                 IF endsWith(e.text, <<NL>>) THEN dropLast(e.text, 1) ELSE e.text >>)
     \o << marker, <<>> >>

\* packV1(fileList, opts) of the test suite: the v1 encoding of an entry list
packV1(files, opts, now) ==
  LET name == IF opts.name # <<>> THEN opts.name ELSE <<"a","r","c","h","i","v","e">>
      description == opts.description
      entries == [i \in 1..Len(files) |-> packEntry(files[i], FALSE)]
      totalSize == sumSizes(entries, 1)
      maxLen == maxLenFrom(entries, 1)
      header ==
        << <<"#","!","/","b","i","n","/","s","h">>, <<"#"," ","-","-","-"," ","S","L","U","R","P"," ","v","1"," ","-","-","-">>, <<"#">>, <<"#"," ","n","a","m","e",":"," ">> \o name >>
        \o (IF description # <<>> THEN << <<"#"," ","d","e","s","c","r","i","p","t","i","o","n",":"," ">> \o description >> ELSE <<>>)
        \o << <<"#"," ","f","i","l","e","s",":"," ">> \o digits(Len(entries)),
              <<"#"," ","t","o","t","a","l",":"," ">> \o humanSize(totalSize),
              <<"#"," ","c","r","e","a","t","e","d",":"," ">> \o now,
              <<"#">> >>
      manifest ==
        IF Len(entries) > 0
        THEN << <<"#"," ","M","A","N","I","F","E","S","T",":">> >>
             \o [i \in 1..Len(entries) |-> manifestLine(entries[i], maxLen)]
             \o << <<"#">> >>
        ELSE <<>>
      prelude == << <<>>, <<"s","e","t"," ","-","e">>, <<>>, <<"e","c","h","o"," ","\"","a","p","p","l","y","i","n","g"," ">> \o name \o <<".",".",".","\"">>, <<>> >>
      bodies == Concat([i \in 1..Len(entries) |-> bodyLinesV1(entries[i])])
      coda == << <<"e","c","h","o"," ","\"","\"">>,
                 <<"e","c","h","o"," ","\"","d","o","n","e","."," ">> \o digits(Len(entries)) \o <<" ","f","i","l","e","s"," ","e","x","t","r","a","c","t","e","d",".","\"">>,
                 <<>> >>
  IN join(header \o manifest \o prelude \o bodies \o coda, <<NL>>)

LegacyPaths == { <<"p">>, <<"d","/","q">>, <<"i","t","'","s">> }

LegacyContents ==
  { utf8Bytes(<<"x">>), utf8Bytes(<<"x","\n">>), utf8Bytes(<<"a","\n","S","L","U","R","P","_","E","N","D","_","p","\n","b","\n">>),
    utf8Bytes(<<"a","\n","S","L","U","R","P","_","E","N","D","_","p","\n","c","a","t"," ",">"," ","'","z","'"," ","<","<"," ","'","Q","'","\n">>), <<0, 255, 10>> }

LegacyFiles == {[relPath |-> p, content |-> c] : p \in LegacyPaths, c \in LegacyContents}

LegacyLists ==
  UNION {{fl \in [1..n -> LegacyFiles] :
            \A i, j \in 1..n : i # j => fl[i].relPath # fl[j].relPath} : n \in 0..MaxFiles}

LegacyOptions ==
  { [name |-> <<>>, description |-> <<>>, noChecksum |-> FALSE],
    [name |-> <<"c","o","m","p","a","t">>, description |-> <<"d"," ","e">>, noChecksum |-> FALSE] }

PackV1 ==
  /\ result.op = "init"
  /\ \E now \in Nows : archive' = packV1(fileList, packOpts, now)
  /\ result' = [op |-> "packV1"]
  /\ UNCHANGED <<fileList, packOpts, inner, secret, pristine, raw, query, disk>>

ParseLegacy ==
  /\ result.op = "packV1"
  /\ result' = [op |-> "parseLegacy", val |-> parseContent(archive)]
  /\ UNCHANGED <<fileList, packOpts, inner, archive, secret, pristine, raw, query, disk>>

InitLegacy ==
  /\ fileList \in LegacyLists
  /\ packOpts \in LegacyOptions
  /\ inner = <<>>
  /\ archive = <<>>
  /\ pristine = <<>>
  /\ secret = <<>>
  /\ raw = [plain |-> <<>>, sealed |-> <<>>]
  /\ query = [candidate |-> <<>>, base |-> <<>>]
  /\ disk = EmptyDisk
  /\ result = [op |-> "init"]

NextLegacy == PackV1 \/ ParseLegacy

SpecLegacy == InitLegacy /\ [][NextLegacy]_vars

\* the lines of text before the first line equal to marker
upToMarker(text, marker) ==
  LET lines == split(text)
      k == indexOf(lines, marker, 1)
  IN IF k = 0 THEN text ELSE join(SubSeq(lines, 1, k - 1), <<NL>>)

sameEntryV1(parsedFile, f) ==
  /\ parsedFile.path = f.relPath
  /\ parsedFile.binary = isBinary(f.content)
  /\ IF parsedFile.binary THEN parsedFile.content = f.content
     ELSE parsedFile.content
            = upToMarker(stripOne(utf8String(f.content)), eofMarker(f.relPath))

\* C11: parseContent of the v1 encoding of an entry list returns one file per entry,
\* in order, with the same path and binary flag, binary content byte-identical,
\* text content the lines up to the marker line, and the name of the header.
LegacyReadable ==
  result.op = "parseLegacy" =>
    /\ Len(result.val.files) = Len(fileList)
    /\ \A i \in 1..Len(fileList) : sameEntryV1(result.val.files[i], fileList[i])
    /\ has(result.val.metadata, <<"n","a","m","e">>)
    /\ get(result.val.metadata, <<"n","a","m","e">>)
         = (IF packOpts.name # <<>> THEN packOpts.name ELSE <<"a","r","c","h","i","v","e">>)

(***************************************************************************)
(* Reading texts that are not well-formed archives (SpecCodec)             *)
(***************************************************************************)
\* a v4 archive whose only block has no end delimiter
V4Unterminated == <<"#"," ","-","-","-"," ","S","L","U","R","P"," ","v","4"," ","-","-","-","\n","#","\n","#"," ","n","a","m","e",":"," ","n","\n","#","\n","\n","=","=","="," ","p"," ","=","=","=","\n","x","\n">>

\* a v4 archive whose first block has no end delimiter and whose second has one
V4HalfTerminated ==
  <<"#"," ","-","-","-"," ","S","L","U","R","P"," ","v","4"," ","-","-","-","\n","#","\n","#"," ","n","a","m","e",":"," ","n","\n","#","\n","\n","=","=","="," ","p"," ","=","=","=","\n","x","\n","=","=","="," ","q"," ","=","=","=","\n","y","\n","=","=","="," ","E","N","D"," ","q"," ","=","=","=","\n">>

\* a v4 first line over a legacy body, and a legacy first line over v4 blocks
V4OverLegacy == <<"#"," ","-","-","-"," ","S","L","U","R","P"," ","v","4"," ","-","-","-","\n","#"," ","n","a","m","e",":"," ","n","\n","s","e","t"," ","-","e","\n","c","a","t"," ",">"," ","'","p","'"," ","<","<"," ","'","M","'","\n","x","\n","M","\n">>
LegacyOverV4 == <<"#","!","/","b","i","n","/","s","h","\n","#"," ","-","-","-"," ","S","L","U","R","P"," ","v","1"," ","-","-","-","\n","#"," ","n","a","m","e",":"," ","n","\n","s","e","t"," ","-","e","\n","=","=","="," ","p"," ","=","=","=","\n","x","\n","=","=","="," ","E","N","D"," ","p"," ","=","=","=","\n">>

Unrecognized == { <<>>, <<"h","e","l","l","o","\n","w","o","r","l","d","\n">>, <<" ","#"," ","-","-","-"," ","S","L","U","R","P"," ","v","4"," ","-","-","-","\n","=","=","="," ","p"," ","=","=","=","\n","x","\n","=","=","="," ","E","N","D"," ","p"," ","=","=","=","\n">> }

CodecInners ==
  Unrecognized
    \cup { V4Unterminated, V4HalfTerminated, V4OverLegacy, LegacyOverV4, V4One, V1Sample }

InitCodec ==
  /\ fileList = <<>>
  /\ packOpts = [name |-> <<>>, description |-> <<>>, noChecksum |-> FALSE]
  /\ inner \in CodecInners
  /\ archive = <<>>
  /\ pristine = <<>>
  /\ secret = <<>>
  /\ raw = [plain |-> <<>>, sealed |-> <<>>]
  /\ query = [candidate |-> <<>>, base |-> <<>>]
  /\ disk = EmptyDisk
  /\ result = [op |-> "init"]

NextCodec == WritePlain \/ Compress \/ ParseArchive

SpecCodec == InitCodec /\ [][NextCodec]_vars

\* text has the first lines of a legacy archive
looksLegacy(text) ==
  LET lines == split(text)
  IN Len(lines) >= 2 /\ lines[1] = <<"#","!","/","b","i","n","/","s","h">> /\ lines[2] = <<"#"," ","-","-","-"," ","S","L","U","R","P"," ","v","1"," ","-","-","-">>

\* C12: reading content that is neither a v4 nor a legacy archive, once the layers
\* are peeled, fails and returns no result.
UnrecognizedFails ==
  (/\ result.op = "parseArchive"
   /\ ~isV4(inner)
   /\ ~looksLegacy(inner)) => ~result.out.ok

\* line i of lines opens a v4 block that no later line closes
openBlockAt(lines, i) ==
  LET t == textMatch(lines[i])
      b == binMatch(lines[i])
      p == IF b.hit THEN b.path ELSE t.path
  IN /\ t.hit \/ b.hit
     /\ ~startsWith(p, <<"E","N","D"," ">>)
     /\ indexOf(lines, <<"=","=","="," ","E","N","D"," ">> \o p \o <<" ","=","=","=">>, i + 1) = 0

\* C13: reading a v4 archive in which a start delimiter has no matching end
\* delimiter fails as a whole and returns no entry list.
UnterminatedFails ==
  (/\ result.op = "parseArchive"
   /\ isV4(inner)
   /\ \E i \in 1..Len(split(inner)) : openBlockAt(split(inner), i)) => ~result.out.ok

\* C14: content whose first line is '# --- SLURP v4 ---' gets the result of
\* parseContentV4 and never that of the legacy codec; content with any other first
\* line gets the result of parseContentV1 and never that of parseContentV4.
OneCodec ==
  (result.op = "parseArchive" /\ result.out.ok) =>
    IF split(result.out.parsed)[1] = <<"#"," ","-","-","-"," ","S","L","U","R","P"," ","v","4"," ","-","-","-">>
    THEN result.out.val = parseContentV4(result.out.parsed)
    ELSE result.out.val = parseContentV1(result.out.parsed)

OneCodecSeen ==
  /\ result.op = "parseArchive" /\ result.out.ok
  /\ result.out.parsed = V4OverLegacy
  /\ result.out.val = parseContentV4(V4OverLegacy)
  /\ result.out.val # parseContentV1(V4OverLegacy)

(***************************************************************************)
(* The two boundary-marker conventions of the wrappers (SpecMarkers)       *)
(***************************************************************************)
\* the old v2 wrapper the test suite builds by hand
oldV2(innerArchive) ==
  LET gzipped == gzipSync(utf8Bytes(innerArchive))
  IN join(<< <<"#","!","/","b","i","n","/","s","h">>, V2_MARKER, <<"#">>, <<"#"," ","T","h","i","s"," ","i","s"," ","a"," ","c","o","m","p","r","e","s","s","e","d"," ","s","l","u","r","p"," ","a","r","c","h","i","v","e",".">>,
             <<"#"," ","s","h","a","2","5","6",":"," ">> \o sha256(gzipped), <<>>,
             OLD_V2_START, join(chunks(base64Encode(gzipped), 76), <<NL>>), OLD_V2_END,
             <<>> >>, <<NL>>)

\* the old v3 wrapper the test suite builds by hand
oldV3(innerArchive, password, salt, iv) ==
  LET key == pbkdf2Sync(password, salt, 100000)
      encrypted == gcmEncrypt(key, iv, gzipSync(utf8Bytes(innerArchive)))
      authTag == gcmTag(key, iv, encrypted)
      payload == salt \o iv \o authTag \o encrypted
  IN join(<< <<"#","!","/","b","i","n","/","s","h">>, V3_MARKER, <<"#">>, <<"#"," ","s","h","a","2","5","6",":"," ">> \o sha256(payload),
             <<"#"," ","i","t","e","r","a","t","i","o","n","s",":"," ","1","0","0","0","0","0">>, <<"#">>,
             OLD_V3_START, join(chunks(base64Encode(payload), 76), <<NL>>), OLD_V3_END,
             <<")">>, <<"e","x","i","t"," ","0">>, <<>> >>, <<NL>>)

\* text with every line equal to one of gone replaced by a comment line
withoutLines(text, gone) ==
  LET lines == split(text)
  IN join([i \in 1..Len(lines) |-> IF lines[i] \in gone THEN <<"#"," ","g","o","n","e">> ELSE lines[i]], <<NL>>)

\* a body that is not the body of the archive
StrayBody == join(chunks(base64Encode(gzipSync(utf8Bytes(<<"s","t","r","a","y">>))), 76), <<NL>>)

CompressOld ==
  /\ result.op = "init"
  /\ \E w \in {oldV2(inner)} : archive' = w /\ pristine' = w
  /\ result' = [op |-> "wrapped", kind |-> "v2"]
  /\ UNCHANGED <<fileList, packOpts, inner, secret, raw, query, disk>>

EncryptOld ==
  /\ result.op = "init"
  /\ \E password \in Passwords, salt \in Salts, iv \in Ivs :
       \E w \in {oldV3(inner, password, salt, iv)} :
         archive' = w /\ pristine' = w /\ secret' = password
  /\ result' = [op |-> "wrapped", kind |-> "v3"]
  /\ UNCHANGED <<fileList, packOpts, inner, raw, query, disk>>

CompressNew ==
  /\ result.op = "init"
  /\ \E w \in {compress(inner, [name |-> <<>>])} : archive' = w /\ pristine' = w
  /\ result' = [op |-> "wrapped", kind |-> "v2"]
  /\ UNCHANGED <<fileList, packOpts, inner, secret, raw, query, disk>>

EncryptNew ==
  /\ result.op = "init"
  /\ \E password \in Passwords, salt \in Salts, iv \in Ivs :
       \E w \in {encrypt(inner, password, [name |-> <<>>], salt, iv)} :
         archive' = w /\ pristine' = w /\ secret' = password
  /\ result' = [op |-> "wrapped", kind |-> "v3"]
  /\ UNCHANGED <<fileList, packOpts, inner, raw, query, disk>>

\* a start marker, an end marker or both are taken out of the archive
Unmark ==
  /\ result.op = "wrapped"
  /\ \E gone \in { {PAYLOAD, OLD_V2_START, OLD_V3_START},
                   {END_PAYLOAD, OLD_V2_END, OLD_V3_END},
                   {PAYLOAD, OLD_V2_START, OLD_V3_START, END_PAYLOAD, OLD_V2_END, OLD_V3_END} } :
       archive' = withoutLines(archive, gone)
  /\ result' = [op |-> "edited", kind |-> result.kind]
  /\ UNCHANGED <<fileList, packOpts, inner, pristine, secret, raw, query, disk>>

\* a complete old pair with another body is appended, or a lone current start marker
Remark ==
  /\ result.op = "wrapped"
  /\ \E tail \in { << OLD_V2_START, StrayBody, OLD_V2_END, <<>> >>,
                   << OLD_V3_START, StrayBody, OLD_V3_END, <<>> >>,
                   << PAYLOAD, <<>> >> } :
       archive' = archive \o join(tail, <<NL>>)
  /\ result' = [op |-> "edited", kind |-> result.kind]
  /\ UNCHANGED <<fileList, packOpts, inner, pristine, secret, raw, query, disk>>

DecompressMarked ==
  /\ result.op \in {"wrapped", "edited"}
  /\ result.kind = "v2"
  /\ result' = [op |-> "decompress", out |-> decompress(archive)]
  /\ UNCHANGED <<fileList, packOpts, inner, archive, pristine, secret, raw, query, disk>>

DecryptMarked ==
  /\ result.op \in {"wrapped", "edited"}
  /\ result.kind = "v3"
  /\ result' = [op |-> "decrypt", out |-> decrypt(archive, secret)]
  /\ UNCHANGED <<fileList, packOpts, inner, archive, pristine, secret, raw, query, disk>>

NextMarkers ==
  \/ CompressOld \/ EncryptOld \/ CompressNew \/ EncryptNew
  \/ Unmark \/ Remark \/ DecompressMarked \/ DecryptMarked

SpecMarkers == InitWrap /\ [][NextMarkers]_vars

\* the start marker is found and its end marker after it
pairFound(text, start, end) ==
  LET lines == split(text)
      s == indexOf(lines, start, 1)
  IN s # 0 /\ indexOf(lines, end, s + 1) # 0

\* C15: decompress and decrypt return the inner archive A from a body between the
\* current pair of markers and from one between the old pair; a complete current
\* pair is used even when an old pair is present, the old pair is used when the
\* current pair is not complete, and with neither pair the call fails with a
\* 'missing payload markers' error.
BothMarkerPairs ==
  /\ result.op = "decompress" =>
       IF pairFound(archive, PAYLOAD, END_PAYLOAD) \/ pairFound(archive, OLD_V2_START, OLD_V2_END)
       THEN result.out = Ok(inner)
       ELSE failsWith(result.out, "invalid v2 archive: missing payload markers")
  /\ result.op = "decrypt" =>
       IF pairFound(archive, PAYLOAD, END_PAYLOAD) \/ pairFound(archive, OLD_V3_START, OLD_V3_END)
       THEN result.out = Ok(inner)
       ELSE failsWith(result.out, "invalid v3 archive: missing payload markers")

BothMarkerPairsSeen ==
  /\ result.op = "decrypt"
  /\ ~pairFound(archive, PAYLOAD, END_PAYLOAD)
  /\ pairFound(archive, OLD_V3_START, OLD_V3_END)
  /\ inner = V1Sample
  /\ result.out = Ok(inner)

(***************************************************************************)
(* The format detectors on the outputs of pack, compress and encrypt       *)
(* (SpecDetect)                                                            *)
(***************************************************************************)
\* the pack command: compress(output, opts)
CompressPacked ==
  /\ result.op = "pack"
  /\ archive' = compress(archive, [name |-> packOpts.name])
  /\ result' = [op |-> "compress"]
  /\ UNCHANGED <<fileList, packOpts, inner, secret, pristine, raw, query, disk>>

\* the pack command: encrypt(output, pw, opts)
EncryptPacked ==
  /\ result.op = "pack"
  /\ \E password \in {<<"p">>}, salt \in Salts, iv \in Ivs :
       /\ archive' = encrypt(archive, password, [name |-> packOpts.name], salt, iv)
       /\ secret' = password
  /\ result' = [op |-> "encrypt"]
  /\ UNCHANGED <<fileList, packOpts, inner, pristine, raw, query, disk>>

\* archive files that no command of this program wrote
OtherTexts ==
  CodecInners \cup { oldV2(V1Sample), V2_MARKER, V3_MARKER, <<"x","\n">> \o V2_MARKER,
                     <<"x","\n","y","\n">> \o V3_MARKER \o <<"\n">>,
                     oldV3(V1Sample, <<"p">>, [i \in 1..16 |-> i], [i \in 1..12 |-> 7 * i]) }

Receive ==
  /\ result.op = "init"
  /\ fileList = <<>>
  /\ archive' \in OtherTexts
  /\ result' = [op |-> "text"]
  /\ UNCHANGED <<fileList, packOpts, inner, secret, pristine, raw, query, disk>>

Detect ==
  /\ result.op \in {"pack", "compress", "encrypt", "text"}
  /\ result' = [op |-> "detect", of |-> result.op, isV4 |-> isV4(archive),
                isCompressed |-> isCompressed(archive), isEncrypted |-> isEncrypted(archive)]
  /\ UNCHANGED <<fileList, packOpts, inner, archive, secret, pristine, raw, query, disk>>

DetectFiles ==
  {[relPath |-> p, content |-> c] :
     p \in { <<"p">>, <<"d","/","q">> }, c \in { utf8Bytes(<<"x","\n">>), <<0, 255, 10>> }}

DetectLists ==
  UNION {{fl \in [1..n -> DetectFiles] :
            \A i, j \in 1..n : i # j => fl[i].relPath # fl[j].relPath} : n \in 0..MaxFiles}

InitDetect ==
  /\ fileList \in DetectLists
  /\ packOpts \in PackOptions
  /\ inner = <<>>
  /\ archive = <<>>
  /\ pristine = <<>>
  /\ secret = <<>>
  /\ raw = [plain |-> <<>>, sealed |-> <<>>]
  /\ query = [candidate |-> <<>>, base |-> <<>>]
  /\ disk = EmptyDisk
  /\ result = [op |-> "init"]

NextDetect == Pack \/ CompressPacked \/ EncryptPacked \/ Receive \/ Detect

SpecDetect == InitDetect /\ [][NextDetect]_vars

\* the characters of text before the first line break at or after index from
lineFrom(text, from) ==
  LET breaks == {i \in from..Len(text) : text[i] = NL}
  IN IF breaks = {} THEN SubSeq(text, from, Len(text))
     ELSE SubSeq(text, from, (CHOOSE i \in breaks : \A j \in breaks : i <= j) - 1)

\* the first or the second line of text is marker
inFirstTwo(text, marker) ==
  \/ lineFrom(text, 1) = marker
  \/ /\ \E i \in 1..Len(text) : text[i] = NL
     /\ lineFrom(text, Len(lineFrom(text, 1)) + 2) = marker

\* C16: pack's output is v4 and neither compressed nor encrypted, compress's output
\* is compressed and neither encrypted nor v4, encrypt's output is encrypted and
\* neither compressed nor v4; isCompressed and isEncrypted are true exactly when
\* the first or the second line is their marker line.
DetectorsAgree ==
  result.op = "detect" =>
    /\ result.of = "pack"
         => (result.isV4 /\ ~result.isCompressed /\ ~result.isEncrypted)
    /\ result.of = "compress"
         => (result.isCompressed /\ ~result.isEncrypted /\ ~result.isV4)
    /\ result.of = "encrypt"
         => (result.isEncrypted /\ ~result.isCompressed /\ ~result.isV4)
    /\ result.isCompressed <=> inFirstTwo(archive, V2_MARKER)
    /\ result.isEncrypted <=> inFirstTwo(archive, V3_MARKER)

DetectorsAgreeSeen ==
  /\ result.op = "detect" /\ result.of = "encrypt"
  /\ Len(fileList) = MaxFiles
  /\ result.isEncrypted /\ ~result.isCompressed /\ ~result.isV4

(***************************************************************************)
(* Two calls of encrypt and of encryptRaw on the same input (SpecFresh)    *)
(***************************************************************************)
\* what crypto.randomBytes(16) and crypto.randomBytes(12) may return in one call
Draws ==
  [salt : Salts, iv : Ivs \cup { [i \in 1..12 |-> 255 - i] }]

EncryptOnce ==
  /\ result.op = "init"
  /\ \E password \in Passwords, d \in Draws :
       /\ pristine' = encrypt(inner, password, [name |-> <<>>], d.salt, d.iv)
       /\ secret' = password
       /\ result' = [op |-> "encryptOnce", first |-> d]
  /\ UNCHANGED <<fileList, packOpts, inner, archive, raw, query, disk>>

EncryptAgain ==
  /\ result.op = "encryptOnce"
  /\ \E d \in Draws :
       /\ archive' = encrypt(inner, secret, [name |-> <<>>], d.salt, d.iv)
       /\ result' = [op |-> "encryptAgain", first |-> result.first, second |-> d]
  /\ UNCHANGED <<fileList, packOpts, inner, pristine, secret, raw, query, disk>>

DecryptBoth ==
  /\ result.op = "encryptAgain"
  /\ result' = [op |-> "decryptBoth", first |-> result.first, second |-> result.second,
                out1 |-> decrypt(pristine, secret), out2 |-> decrypt(archive, secret)]
  /\ UNCHANGED <<fileList, packOpts, inner, archive, pristine, secret, raw, query, disk>>

EncryptRawOnce ==
  /\ result.op = "init"
  /\ inner = <<>>
  /\ \E inputBuffer \in RawBuffers, password \in Passwords, d \in Draws :
       /\ raw' = [plain |-> inputBuffer,
                  sealed |-> encryptRaw(inputBuffer, password, d.salt, d.iv)]
       /\ secret' = password
       /\ result' = [op |-> "encryptRawOnce", first |-> d]
  /\ UNCHANGED <<fileList, packOpts, inner, archive, pristine, query, disk>>

EncryptRawAgain ==
  /\ result.op = "encryptRawOnce"
  /\ \E d \in Draws :
       /\ raw' = [plain |-> raw.plain, sealed |-> raw.sealed,
                  again |-> encryptRaw(raw.plain, secret, d.salt, d.iv)]
       /\ result' = [op |-> "encryptRawAgain", first |-> result.first, second |-> d]
  /\ UNCHANGED <<fileList, packOpts, inner, archive, pristine, secret, query, disk>>

DecryptRawBoth ==
  /\ result.op = "encryptRawAgain"
  /\ result' = [op |-> "decryptRawBoth", first |-> result.first, second |-> result.second,
                out1 |-> decryptRaw(raw.sealed, secret),
                out2 |-> decryptRaw(raw.again, secret)]
  /\ UNCHANGED <<fileList, packOpts, inner, archive, pristine, secret, raw, query, disk>>

NextFresh ==
  \/ EncryptOnce \/ EncryptAgain \/ DecryptBoth
  \/ EncryptRawOnce \/ EncryptRawAgain \/ DecryptRawBoth

SpecFresh == InitWrap /\ [][NextFresh]_vars

\* C17: two encrypt calls, and two encryptRaw calls, on the same plaintext and
\* password whose random salt or nonce differ produce different outputs, and both
\* outputs decrypt to the plaintext.
FreshOutputs ==
  /\ (result.op \in {"encryptAgain", "decryptBoth"} /\ result.first # result.second)
       => pristine # archive
  /\ (result.op \in {"encryptRawAgain", "decryptRawBoth"} /\ result.first # result.second)
       => raw.sealed # raw.again
  /\ result.op = "decryptBoth" => (result.out1 = Ok(inner) /\ result.out2 = Ok(inner))
  /\ result.op = "decryptRawBoth"
       => (result.out1 = Ok(raw.plain) /\ result.out2 = Ok(raw.plain))

FreshOutputsSeen ==
  /\ result.op = "decryptRawBoth"
  /\ result.first.salt = result.second.salt /\ result.first.iv # result.second.iv
  /\ raw.sealed # raw.again
  /\ raw.plain # <<>>
  /\ result.out1 = Ok(raw.plain) /\ result.out2 = Ok(raw.plain)

(***************************************************************************)
(* Encrypted payloads cut short (SpecShort)                                *)
(***************************************************************************)
ShortLens == {0, 10, 43}

\* a v3 archive around payload; sha is the text of its checksum line, <<>> for none
v3Around(payload, sha) ==
  join(<< V3_MARKER, <<"#">> >>
       \o (IF sha # <<>> THEN << <<"#"," ","s","h","a","2","5","6",":"," ">> \o sha >> ELSE <<>>)
       \o << <<"#"," ","i","t","e","r","a","t","i","o","n","s",":"," ","1","0","0","0","0","0">>, <<>>, PAYLOAD >>
       \o chunks(base64Encode(payload), 76)
       \o << END_PAYLOAD, <<>> >>, <<NL>>)

\* the archive is cut: its payload keeps n bytes, and the checksum line is kept as it
\* was, rewritten for the cut payload, or left out
Shorten ==
  /\ result.op = "wrapped"
  /\ result.kind = "v3"
  /\ \E n \in ShortLens, mode \in {"kept", "rewritten", "none"} :
       \E cut \in {SubSeq(payloadOf(archive), 1, n)} :
         /\ archive' = v3Around(cut, CASE mode = "kept" -> sha256(payloadOf(archive))
                                       [] mode = "rewritten" -> sha256(cut)
                                       [] OTHER -> <<>>)
         /\ result' = [op |-> "short", kind |-> "v3", mode |-> mode]
  /\ UNCHANGED <<fileList, packOpts, inner, pristine, secret, raw, query, disk>>

DecryptAs ==
  /\ result.op \in {"wrapped", "short"}
  /\ result.kind = "v3"
  /\ \E password \in Passwords :
       result' = [op |-> "decrypt", password |-> password, of |-> result,
                  out |-> decrypt(archive, password)]
  /\ UNCHANGED <<fileList, packOpts, inner, archive, pristine, secret, raw, query, disk>>

ShortenRaw ==
  /\ result.op = "encryptRaw"
  /\ Len(raw.sealed) >= 44
  /\ \E n \in ShortLens : raw' = [plain |-> raw.plain, sealed |-> SubSeq(raw.sealed, 1, n)]
  /\ UNCHANGED <<fileList, packOpts, inner, archive, pristine, secret, query, disk, result>>

NextShort == EncryptNew \/ Shorten \/ DecryptAs \/ EncryptRaw \/ ShortenRaw \/ DecryptRaw

SpecShort == InitWrap /\ [][NextShort]_vars

\* C18 as claimed: decrypt of an archive whose decoded payload is shorter than 44
\* bytes fails with 'payload too short'.
ShortPayloadTooShort ==
  (result.op = "decrypt" /\ Len(payloadOf(archive)) < 44)
    => failsWith(result.out, "invalid v3 archive: payload too short")

\* C18 amended: a decoded payload shorter than 44 bytes is rejected whatever the
\* password: decrypt fails with 'checksum mismatch' when the header has a sha256
\* line that the payload does not match and with 'payload too short' otherwise,
\* decryptRaw fails with 'input too short'; a payload of 44 bytes or more is split
\* at 16/28/44 and opens with the password it was sealed with.
ShortPayloadRejected ==
  /\ (result.op = "decrypt" /\ Len(payloadOf(archive)) < 44)
       => IF result.of.op = "short" /\ result.of.mode = "kept"
          THEN failsWith(result.out, "checksum mismatch")
          ELSE failsWith(result.out, "invalid v3 archive: payload too short")
  /\ (result.op = "decrypt" /\ Len(payloadOf(archive)) >= 44 /\ result.password = secret)
       => result.out = Ok(inner)
  /\ (result.op = "decryptRaw" /\ Len(raw.sealed) < 44)
       => failsWith(result.out, "input too short to be encrypted data")
  /\ (result.op = "decryptRaw" /\ Len(raw.sealed) >= 44 /\ result.password = secret)
       => result.out = Ok(raw.plain)

ShortPayloadRejectedSeen ==
  /\ result.op = "decryptRaw"
  /\ Len(raw.sealed) = 43
  /\ result.password = secret
  /\ failsWith(result.out, "input too short to be encrypted data")

(***************************************************************************)
(* verify (SpecVerify)                                                     *)
(***************************************************************************)
VerifyFileSet ==
  {[relPath |-> p, content |-> c] :
     p \in { <<"p">>, <<"d","/","q">> },
     c \in { utf8Bytes(<<"x">>), utf8Bytes(<<"x","\n">>), <<0, 255, 10>> }}

VerifyLists ==
  UNION {{fl \in [1..n -> VerifyFileSet] :
            \A i, j \in 1..n : i # j => fl[i].relPath # fl[j].relPath} : n \in 0..MaxFiles}

Junk == <<7>>

InitVerify ==
  /\ fileList \in VerifyLists
  /\ packOpts = [name |-> <<>>, description |-> <<>>, noChecksum |-> FALSE]
  /\ inner = <<>>
  /\ archive = <<>>
  /\ pristine = <<>>
  /\ secret = <<>>
  /\ raw = [plain |-> <<>>, sealed |-> <<>>]
  /\ query = [candidate |-> <<>>, base |-> <<>>]
  /\ disk = EmptyDisk
  /\ result = [op |-> "init"]

\* between apply and verify a file of the working directory is deleted, overwritten,
\* or replaced by a directory of the same name
Disturb ==
  /\ result.op \in {"apply", "disturbed"}
  /\ \E f \in disk.files, how \in {"unlink", "overwrite", "mkdir"} :
       disk' = CASE how = "unlink" -> [disk EXCEPT !.files = @ \ {f}]
                 [] how = "overwrite" -> [disk EXCEPT !.files = (@ \ {f}) \cup {<<f[1], Junk>>}]
                 [] OTHER -> [files |-> disk.files \ {f}, dirs |-> disk.dirs \cup {f[1]}]
  /\ result' = [op |-> "disturbed"]
  /\ UNCHANGED <<fileList, packOpts, inner, archive, secret, pristine, raw, query>>

Verify ==
  /\ result.op \in {"pack", "apply", "disturbed"}
  /\ result' = [op |-> "verify", out |-> verify(archive, disk, Cwd)]
  /\ UNCHANGED <<fileList, packOpts, inner, archive, secret, pristine, raw, query, disk>>

NextVerify == Pack \/ Apply \/ Disturb \/ Verify

SpecVerify == InitVerify /\ [][NextVerify]_vars

\* entry f of the archive fails: nothing at its path, or bytes other than expected
failsEntry(f) ==
  LET at == resolve(Cwd, f.path)
  IN ~(isFile(disk, at) /\ readFileSync(disk, at) = writtenBytes(f))

\* C19: verify examines every entry, counts exactly the missing or mismatching
\* ones, and returns true iff there is none.
VerifyExaminesAll ==
  result.op = "verify" =>
    LET files == parseArchive(archive, NoOpts).val.files
        failing == {i \in 1..Len(files) : failsEntry(files[i])}
    IN /\ result.out.ok
       /\ Len(result.out.log) = Len(files)
       /\ \A i \in 1..Len(files) :
            /\ result.out.log[i].path = files[i].path
            /\ (result.out.log[i].line = "OK") <=> (i \notin failing)
       /\ result.out.fail = Cardinality(failing)
       /\ result.out.val <=> (failing = {})

(***************************************************************************)
(* The manifest and the checksums read back from it (SpecManifest)         *)
(***************************************************************************)
ManifestFileSet ==
  {[relPath |-> p, content |-> c] :
     p \in { <<"p">>, <<"d","/","q">>, <<"a"," ","b">> },
     c \in { utf8Bytes(<<"x","\n">>), <<0, 255, 10>> }}

ManifestLists ==
  UNION {{fl \in [1..n -> ManifestFileSet] :
            \A i, j \in 1..n : i # j => fl[i].relPath # fl[j].relPath} : n \in 0..MaxFiles}

InitManifest ==
  /\ fileList \in ManifestLists
  /\ packOpts \in PackOptions
  /\ inner = <<>>
  /\ archive = <<>>
  /\ pristine = <<>>
  /\ secret = <<>>
  /\ raw = [plain |-> <<>>, sealed |-> <<>>]
  /\ query = [candidate |-> <<>>, base |-> <<>>]
  /\ disk = EmptyDisk
  /\ result = [op |-> "init"]

NextManifest == Pack \/ ParseContent

SpecManifest == InitManifest /\ [][NextManifest]_vars

\* the lines of the archive's manifest: those that start with '#   '
manifestLines(text) == SelectSeq(split(text), LAMBDA l : startsWith(l, <<"#"," "," "," ">>))

\* line.includes(word)
carries(line, word) ==
  \E p \in 1..(Len(line) - Len(word) + 1) : SubSeq(line, p, p + Len(word) - 1) = word

\* C20: the checksums read from a packed archive hold, for every entry path and for
\* no other key, the first 16 hex characters of the SHA-256 of the entry's content;
\* with noChecksum no manifest line has a sha256 field and no checksum is read.
ChecksumsPerEntry ==
  result.op = "parseContent" =>
    LET checksums == result.val.checksums
        paths == {fileList[i].relPath : i \in 1..Len(fileList)}
    IN IF packOpts.noChecksum
       THEN /\ checksums = {}
            /\ \A i \in 1..Len(manifestLines(archive)) :
                 ~carries(manifestLines(archive)[i], <<"s","h","a","2","5","6",":">>)
       ELSE /\ {kv[1] : kv \in checksums} = paths
            /\ \A i \in 1..Len(fileList) :
                 /\ has(checksums, fileList[i].relPath)
                 /\ get(checksums, fileList[i].relPath)
                      = SubSeq(sha256(fileList[i].content), 1, 16)

(***************************************************************************)
(* Archives whose manifest was edited (SpecTrust)                          *)
(***************************************************************************)
\* the indexes of the manifest lines of a v4 archive: the lines '#   ...' between
\* '# MANIFEST:' and the first empty line
manifestAt(lines) ==
  LET head == indexOf(lines, <<"#"," ","M","A","N","I","F","E","S","T",":">>, 1)
      stop == indexOf(lines, <<>>, 1)
  IN IF head = 0 THEN {}
     ELSE {i \in (head + 1)..(stop - 1) : startsWith(lines[i], <<"#"," "," "," ">>)}

\* a manifest line with the sixteen hex characters of its checksum replaced
rehashed(line) ==
  LET hits == shaHits(line, 1)
  IN IF hits = {} THEN line
     ELSE LET p == CHOOSE p \in hits : TRUE
          IN SubSeq(line, 1, p + 6) \o <<"0","0","0","0","0","0","0","0","0","0","0","0","0","0","0","0">> \o SubSeq(line, p + 23, Len(line))

StrayLine == <<"#"," "," "," ","z","z"," "," ","1"," ","B"," "," ","s","h","a","2","5","6",":","0","1","2","3","4","5","6","7","8","9","a","b","c","d","e","f">>

\* the archive file is edited in its manifest only: a checksum is replaced, a line is
\* removed, or a line for a file that is not in the archive is added
EditManifest ==
  /\ result.op \in {"pack", "apply"}
  /\ \E lines \in {split(archive)} :
       \E i \in manifestAt(lines), how \in {"rehash", "drop", "stray"} :
         \E edited \in {join(CASE how = "rehash" -> [lines EXCEPT ![i] = rehashed(@)]
                               [] how = "drop" -> SubSeq(lines, 1, i - 1) \o SubSeq(lines, i + 1, Len(lines))
                               [] OTHER -> SubSeq(lines, 1, i) \o <<StrayLine>> \o SubSeq(lines, i + 1, Len(lines)),
                             <<NL>>)} :
           /\ edited # archive
           /\ pristine' = archive
           /\ archive' = edited
           /\ result' = [op |-> "edited", how |-> how]
  /\ UNCHANGED <<fileList, packOpts, inner, secret, raw, query, disk>>

ParseEdited ==
  /\ result.op = "edited"
  /\ result' = [op |-> "parseEdited", how |-> result.how, out |-> parseArchive(archive, NoOpts)]
  /\ UNCHANGED <<fileList, packOpts, inner, archive, secret, pristine, raw, query, disk>>

ApplyEdited ==
  /\ result.op = "edited"
  /\ \E r \in {apply(archive, disk, Cwd)} :
       /\ disk' = r.disk
       /\ result' = [op |-> "applyEdited", how |-> result.how, ok |-> r.ok, before |-> disk]
  /\ UNCHANGED <<fileList, packOpts, inner, archive, secret, pristine, raw, query>>

VerifyEdited ==
  /\ result.op = "edited"
  /\ result' = [op |-> "verifyEdited", how |-> result.how, out |-> verify(archive, disk, Cwd)]
  /\ UNCHANGED <<fileList, packOpts, inner, archive, secret, pristine, raw, query, disk>>

NextTrust == Pack \/ Apply \/ EditManifest \/ ParseEdited \/ ApplyEdited \/ VerifyEdited

SpecTrust == InitManifest /\ [][NextTrust]_vars

Laters == { <<"2","0","2","6","-","0","1","-","0","1","T","0","0",":","0","0",":","0","1",".","5","0","0","Z">>, <<"2","0","2","7","-","1","2","-","3","1","T","2","3",":","5","9",":","5","9",".","9","9","9","Z">> }

PackOnce ==
  /\ result.op = "init"
  /\ \E prompt \in Prompts, now \in Nows :
       /\ archive' = pack(fileList, packOpts, prompt, now)
       /\ result' = [op |-> "packOnce", prompt |-> prompt, now |-> now]
  /\ UNCHANGED <<fileList, packOpts, inner, secret, pristine, raw, query, disk>>

\* a second call with the same files, options and PROMPT.md, at the same or a later time
PackAgain ==
  /\ result.op = "packOnce"
  /\ \E now \in Nows \cup Laters :
       /\ pristine' = pack(fileList, packOpts, result.prompt, now)
       /\ result' = [op |-> "packAgain", prompt |-> result.prompt, first |-> result.now,
                     now |-> now]
  /\ UNCHANGED <<fileList, packOpts, inner, archive, secret, raw, query, disk>>

NextRepack == PackOnce \/ PackAgain

SpecRepack == InitManifest /\ [][NextRepack]_vars

\* C22: two pack calls on the same files, options and prompt give outputs with the
\* same number of lines that are equal in every line but the one '# created:' line
\* of the header, which holds the time of its call.
PackDeterministic ==
  result.op = "packAgain" =>
    LET a == split(archive)
        b == split(pristine)
        differing == {i \in 1..Len(a) : a[i] # b[i]}
        stamp == indexOf(a, <<"#"," ","c","r","e","a","t","e","d",":"," ">> \o result.first, 1)
    IN /\ Len(a) = Len(b)
       /\ stamp # 0
       /\ stamp < indexOf(a, <<>>, 1)
       /\ b[stamp] = <<"#"," ","c","r","e","a","t","e","d",":"," ">> \o result.now
       /\ differing \subseteq {stamp}

PackDeterministicSeen ==
  /\ result.op = "packAgain"
  /\ result.now # result.first
  /\ Len(fileList) = MaxFiles
  /\ archive # pristine

(***************************************************************************)
(* Where the commands take the password from (SpecCli)                     *)
(***************************************************************************)
FlagValues == { Null, Str(<<>>), Str(<<"p">>), Str(<<"q">>) }

EnvValues == { Null, Str(<<>>), Str(<<"p">>), Str(<<"e">>) }

OutputFiles == { Null, Str(<<"o","u","t">>) }

\* what the targets of a pack command may give: nothing, files out of order, a file twice
Collected ==
  { <<>>,
    << [relPath |-> <<"p">>, content |-> utf8Bytes(<<"x","\n">>)],
       [relPath |-> <<"d","/","q">>, content |-> <<0, 255, 10>>] >>,
    << [relPath |-> <<"p">>, content |-> utf8Bytes(<<"x","\n">>)],
       [relPath |-> <<"p">>, content |-> utf8Bytes(<<"y","\n">>)] >> }

PackModes == { [encrypt |-> TRUE, compress |-> FALSE], [encrypt |-> TRUE, compress |-> TRUE],
               [encrypt |-> FALSE, compress |-> TRUE], [encrypt |-> FALSE, compress |-> FALSE] }

CliPack ==
  /\ result.op = "init"
  /\ \E collected \in Collected, mode \in PackModes, flag \in FlagValues, env \in EnvValues,
        outputFile \in OutputFiles, salt \in Salts, iv \in Ivs, now \in Nows :
       /\ fileList' = collected
       /\ result' = [op |-> "cli", command |-> "pack", encrypts |-> mode.encrypt,
                     flag |-> flag, env |-> env, now |-> now,
                     outcome |-> cliPack(collected,
                                         [name |-> <<>>, description |-> <<>>,
                                          noChecksum |-> FALSE, encrypt |-> mode.encrypt,
                                          compress |-> mode.compress, password |-> flag,
                                          output |-> outputFile],
                                         env, <<>>, now, salt, iv)]
  /\ UNCHANGED <<packOpts, inner, archive, secret, pristine, raw, query, disk>>

\* the archive file named on the command line holds the inner text, plain or compressed
CliEncrypt ==
  /\ result.op = "init"
  /\ \E text \in {inner, compress(inner, [name |-> <<>>])}, named \in BOOLEAN,
        flag \in FlagValues, env \in EnvValues, outputFile \in OutputFiles,
        salt \in Salts, iv \in Ivs :
       /\ archive' = text
       /\ result' = [op |-> "cli", command |-> "encrypt", encrypts |-> TRUE,
                     flag |-> flag, env |-> env,
                     outcome |-> cliEncrypt(IF named THEN Str(text) ELSE Null,
                                            flag, env, outputFile, salt, iv)]
  /\ UNCHANGED <<fileList, packOpts, inner, secret, pristine, raw, query, disk>>

CliDecrypt ==
  /\ result.op \in {"init", "encrypt"}
  /\ \E flag \in FlagValues, env \in EnvValues, outputFile \in OutputFiles :
       result' = [op |-> "cli", command |-> "decrypt", encrypts |-> FALSE,
                  flag |-> flag, env |-> env,
                  outcome |-> cliDecrypt(Str(archive), flag, env, outputFile)]
  /\ UNCHANGED <<fileList, packOpts, inner, archive, secret, pristine, raw, query, disk>>

CliEnc ==
  /\ result.op = "init"
  /\ \E input \in RawBuffers, flag \in FlagValues, env \in EnvValues,
        outputFile \in OutputFiles, salt \in Salts, iv \in Ivs :
       /\ raw' = [plain |-> input, sealed |-> <<>>]
       /\ result' = [op |-> "cli", command |-> "enc", encrypts |-> TRUE,
                     flag |-> flag, env |-> env,
                     outcome |-> cliEnc(input, flag, env, outputFile, salt, iv)]
  /\ UNCHANGED <<fileList, packOpts, inner, archive, secret, pristine, query, disk>>

CliDec ==
  /\ result.op \in {"init", "encryptRaw"}
  /\ \E flag \in FlagValues, env \in EnvValues, outputFile \in OutputFiles :
       result' = [op |-> "cli", command |-> "dec", encrypts |-> FALSE,
                  flag |-> flag, env |-> env,
                  outcome |-> cliDec(raw.sealed, flag, env, outputFile)]
  /\ UNCHANGED <<fileList, packOpts, inner, archive, secret, pristine, raw, query, disk>>

NextCli == CliPack \/ CliEncrypt \/ Encrypt \/ CliDecrypt \/ CliEnc \/ EncryptRaw \/ CliDec

SpecCli == InitWrap /\ [][NextCli]_vars

\* the data a command put out, on stdout or in its output file
dataOut(outcome) ==
  IF outcome.stdout # <<>> THEN outcome.stdout[1]
  ELSE (CHOOSE f \in outcome.files : TRUE)[2]

\* the command asked for a password: every one but a pack without -e
asksPassword == result.op = "cli" /\ (result.command = "pack" => result.encrypts)

\* the finished command used the password pw: what it put out opens with pw, or is
\* what its input opens to with pw
usedPassword(pw) ==
  LET data == dataOut(result.outcome)
  IN CASE result.command = "pack" ->
            decrypt(data, pw) = Ok(pack(sortByRelPath(dedupe(fileList)), packOpts, <<>>, result.now))
       [] result.command = "encrypt" ->
            decrypt(data, pw) = Ok(IF isCompressed(archive) THEN inner ELSE archive)
       [] result.command = "decrypt" -> decrypt(archive, pw) = Ok(data)
       [] result.command = "enc" -> decryptRaw(data, pw) = Ok(raw.plain)
       [] OTHER -> decryptRaw(raw.sealed, pw) = Ok(data)

\* C23 as claimed: a command that finishes used the value of -p whenever -p was given,
\* the empty value included.
FlagValueUsed ==
  (asksPassword /\ result.outcome.code = 0 /\ result.flag.given)
    => usedPassword(result.flag.val)

\* C23 amended: the password is the value of -p if that is given and not empty,
\* otherwise SLURP_PASSWORD; when neither holds a non-empty value the command exits
\* with code 1 and puts out nothing.
PasswordSource ==
  asksPassword =>
    LET pw == IF truthy(result.flag) THEN result.flag ELSE result.env
    IN IF ~truthy(pw)
       THEN /\ result.outcome.code = 1
            /\ result.outcome.stdout = <<>>
            /\ result.outcome.files = {}
       ELSE result.outcome.code = 0 => usedPassword(pw.val)

PasswordSourceSeen ==
  /\ asksPassword
  /\ result.command = "enc"
  /\ result.outcome.code = 0
  /\ result.flag = Str(<<"q">>)
  /\ result.env = Str(<<"e">>)
  /\ usedPassword(<<"q">>)
  /\ ~usedPassword(<<"e">>)

(***************************************************************************)
(* The path guard inside the write loops (checked under SpecPack)          *)
(***************************************************************************)
\* C24: when apply or unpack reaches the first entry whose path violates the guard,
\* it stops with an error; the entries before it are on disk and neither that entry
\* nor any later one has been written.
GuardHaltsAtFirst ==
  result.op \in {"apply", "unpack"} =>
    LET files == parseArchive(archive, NoOpts).val.files
        bad == {i \in 1..Len(files) : ~safePath(files[i].path, result.base).ok}
    IN bad # {} =>
         LET k == CHOOSE i \in bad : \A j \in bad : i <= j
         IN /\ ~result.ok
            /\ \A i \in 1..(k - 1) : isFile(disk, destOf(files[i].path))
            /\ \A f \in disk.files : \E i \in 1..(k - 1) : f[1] = destOf(files[i].path)

(***************************************************************************)
(* Text files whose lines look like delimiters (SpecDelims)                *)
(***************************************************************************)
\* lines that look like start delimiters, and like end delimiters of another path
DelimContents(other) ==
  { utf8Bytes(<<"a","\n","=","=","="," ">> \o other \o <<" ","=","=","=","\n","b","\n">>),
    utf8Bytes(<<"=","=","="," ","E","N","D"," ">> \o other \o <<" ","=","=","=","\n","=","=","="," ","x"," ","[","b","i","n","a","r","y","]"," ","=","=","=","\n","A","A","A","A">>),
    utf8Bytes(<<"=","=","="," ","p"," ","=","=","=","\n","=","=","="," ","q"," ","=","=","=","\n","=","=","="," ","E","N","D"," ","z","z"," ","=","=","=","\n">>),
    utf8Bytes(<<"x","\n">>) }

DelimFiles ==
  {[relPath |-> <<"p">>, content |-> c] : c \in DelimContents(<<"q">>)}
  \cup {[relPath |-> <<"q">>, content |-> c] : c \in DelimContents(<<"p">>)}

DelimLists ==
  UNION {{fl \in [1..n -> DelimFiles] :
            \A i, j \in 1..n : i # j => fl[i].relPath # fl[j].relPath} : n \in 0..MaxFiles}

InitDelims ==
  /\ fileList \in DelimLists
  /\ packOpts \in PackOptions
  /\ inner = <<>>
  /\ archive = <<>>
  /\ pristine = <<>>
  /\ secret = <<>>
  /\ raw = [plain |-> <<>>, sealed |-> <<>>]
  /\ query = [candidate |-> <<>>, base |-> <<>>]
  /\ disk = EmptyDisk
  /\ result = [op |-> "init"]

NextDelims == Pack \/ ParseContent

SpecDelims == InitDelims /\ [][NextDelims]_vars

\* a line of text that a start or end delimiter pattern matches
delimiterLike(text) ==
  \E l \in {split(text)[i] : i \in 1..Len(split(text))} :
    textMatch(l).hit \/ binMatch(l).hit

\* C25: a text entry whose content has lines that look like start delimiters or like
\* end delimiters of another path comes back from parseContent(pack(...)) as one
\* entry with those lines in its content, and no entry is opened, closed or split
\* by them.
DelimiterLinesKept ==
  result.op = "parseContent" =>
    /\ Len(result.val.files) = Len(fileList)
    /\ \A i \in 1..Len(fileList) :
         /\ sameEntry(result.val.files[i], fileList[i])
         /\ delimiterLike(utf8String(fileList[i].content))
              => delimiterLike(result.val.files[i].content)

DelimiterLinesKeptSeen ==
  /\ result.op = "parseContent"
  /\ Len(fileList) = 2
  /\ \A i \in 1..2 : delimiterLike(result.val.files[i].content)
  /\ \A i \in 1..2 : sameEntry(result.val.files[i], fileList[i])

(***************************************************************************)
(* Files whose lines look like header lines (SpecHeader)                   *)
(***************************************************************************)
HeaderLike ==
  <<"#"," ","n","a","m","e",":"," ","e","v","i","l","\n","#"," ","d","e","s","c","r","i","p","t","i","o","n",":"," ","e","v","i","l","\n","#"," ","s","e","n","t","i","n","e","l",":"," ","s","\n","#"," ","M","A","N","I","F","E","S","T",":","\n","#"," "," "," ","p"," "," ","1"," ","B"," "," ","s","h","a","2","5","6",":","0","1","2","3","4","5","6","7","8","9","a","b","c","d","e","f","\n","#"," "," "," ","z","z"," "," ","1"," ","B"," "," ","s","h","a","2","5","6",":","0","1","2","3","4","5","6","7","8","9","a","b","c","d","e","f","\n","#","\n","#"," ","f","i","l","e","s",":"," ","9","\n">>

HeaderFiles ==
  {[relPath |-> p, content |-> c] :
     p \in { <<"p">>, <<"d","/","q">> }, c \in { utf8Bytes(HeaderLike), utf8Bytes(<<"x","\n">>), <<0, 255, 10>> }}

HeaderLists ==
  UNION {{fl \in [1..n -> HeaderFiles] :
            \A i, j \in 1..n : i # j => fl[i].relPath # fl[j].relPath} : n \in 0..MaxFiles}

InitHeader ==
  /\ fileList \in HeaderLists
  /\ packOpts \in LegacyOptions
  /\ inner = <<>>
  /\ archive = <<>>
  /\ pristine = <<>>
  /\ secret = <<>>
  /\ raw = [plain |-> <<>>, sealed |-> <<>>]
  /\ query = [candidate |-> <<>>, base |-> <<>>]
  /\ disk = EmptyDisk
  /\ result = [op |-> "init"]

NextHeader == Pack \/ ParseContent \/ PackV1 \/ ParseLegacy

SpecHeader == InitHeader /\ [][NextHeader]_vars

\* the metadata the header written by pack or packV1 holds
headerMeta ==
  {<< <<"n","a","m","e">>, IF packOpts.name # <<>> THEN packOpts.name ELSE <<"a","r","c","h","i","v","e">> >>,
   << <<"f","i","l","e","s">>, digits(Len(fileList)) >>,
   << <<"t","o","t","a","l">>, humanSize(sumSizes([i \in 1..Len(fileList) |-> packEntry(fileList[i], FALSE)], 1)) >>}
  \cup (IF packOpts.description # <<>> THEN {<< <<"d","e","s","c","r","i","p","t","i","o","n">>, packOpts.description >>} ELSE {})

\* the checksums the manifest written by pack or packV1 holds
headerChecksums ==
  {<<fileList[i].relPath, SubSeq(sha256(fileList[i].content), 1, 16)>> : i \in 1..Len(fileList)}

\* C26: the metadata and the checksums parsed from a packed archive, v4 or v1, are
\* those of its header, whatever lines the file bodies hold.
HeaderRegionOnly ==
  result.op \in {"parseContent", "parseLegacy"} =>
    /\ result.val.checksums = headerChecksums
    /\ \E now \in Nows : result.val.metadata = headerMeta \cup {<< <<"c","r","e","a","t","e","d">>, now >>}

HeaderRegionOnlySeen ==
  /\ result.op \in {"parseContent", "parseLegacy"}
  /\ \E i \in 1..Len(fileList) : fileList[i].content = utf8Bytes(HeaderLike)
  /\ \E i \in 1..Len(result.val.files) :
       result.val.files[i].content = stripOne(HeaderLike)
  /\ result.val.checksums = headerChecksums

(***************************************************************************)
(* Archives with several defects at once (SpecOrder)                       *)
(***************************************************************************)
WrongDigest == sha256(<<1, 2, 3>>)

\* the text of a wrapped archive made by hand: its first line, a sha256 line unless
\* sha is <<>>, and the payload between the markers or, unmarked, on bare lines
crafted(firstLine, sha, marked, payload) ==
  join(<< firstLine, <<"#">> >>
       \o (IF sha # <<>> THEN << <<"#"," ","s","h","a","2","5","6",":"," ">> \o sha >> ELSE <<>>)
       \o << <<"#"," ","i","t","e","r","a","t","i","o","n","s",":"," ","1","0","0","0","0","0">>, <<>> >>
       \o (IF marked THEN << PAYLOAD >> ELSE <<>>)
       \o chunks(base64Encode(payload), 76)
       \o (IF marked THEN << END_PAYLOAD >> ELSE <<>>)
       \o << <<>> >>, <<NL>>)

\* a payload as it was made, cut to ten bytes (or by one byte if it has no more than
\* ten), or with its last byte changed
bodyOf(made, body) ==
  CASE body = "cut" -> SubSeq(made, 1, IF Len(made) > 10 THEN 10 ELSE Len(made) - 1)
    [] body = "garbled" -> [made EXCEPT ![Len(made)] = (@ + 1) % 256]
    [] OTHER -> made

Craft ==
  /\ result.op = "init"
  /\ \E kind \in {"v2", "v3"}, headed \in BOOLEAN, marked \in BOOLEAN,
        sha \in {"right", "wrong", "none"}, body \in {"made", "cut", "garbled"},
        salt \in Salts, iv \in Ivs :
       \E payload \in {bodyOf(IF kind = "v3"
                              THEN payloadOf(encrypt(inner, <<"p">>, [name |-> <<>>], salt, iv))
                              ELSE gzipSync(utf8Bytes(inner)), body)} :
         /\ archive' = crafted(IF ~headed THEN <<"#"," ","-","-","-"," ","S","L","U","R","P"," ","v","4"," ","-","-","-">>
                               ELSE IF kind = "v3" THEN V3_MARKER ELSE V2_MARKER,
                               CASE sha = "right" -> sha256(payload)
                                 [] sha = "wrong" -> WrongDigest
                                 [] OTHER -> <<>>,
                               marked, payload)
         /\ pristine' = payload
         /\ secret' = <<"p">>
         /\ result' = [op |-> "crafted", kind |-> kind, headed |-> headed,
                       marked |-> marked, sha |-> sha, body |-> body]
  /\ UNCHANGED <<fileList, packOpts, inner, raw, query, disk>>

DecryptCrafted ==
  /\ result.op = "crafted"
  /\ result.kind = "v3"
  /\ \E password \in { <<"p">>, <<"q">> } :
       result' = [op |-> "decryptCrafted", made |-> result, password |-> password,
                  out |-> decrypt(archive, password)]
  /\ UNCHANGED <<fileList, packOpts, inner, archive, secret, pristine, raw, query, disk>>

DecompressCrafted ==
  /\ result.op = "crafted"
  /\ result.kind = "v2"
  /\ result' = [op |-> "decompressCrafted", made |-> result, out |-> decompress(archive)]
  /\ UNCHANGED <<fileList, packOpts, inner, archive, secret, pristine, raw, query, disk>>

NextOrder == Craft \/ DecryptCrafted \/ DecompressCrafted

SpecOrder == InitWrap /\ [][NextOrder]_vars

\* C27: decrypt reports the first of: not a v3 archive, missing payload markers,
\* checksum mismatch (with the expected and the actual digest), payload too short,
\* decryption failed; decompress reports missing markers, then the checksum mismatch,
\* and only then what gunzip finds.
ChecksInOrder ==
  /\ result.op = "decryptCrafted" =>
       LET m == result.made
       IN IF ~m.headed THEN failsWith(result.out, "not a v3 encrypted archive")
          ELSE IF ~m.marked
          THEN failsWith(result.out, "invalid v3 archive: missing payload markers")
          ELSE IF m.sha = "wrong" THEN result.out = Mismatch(WrongDigest, sha256(pristine))
          ELSE IF m.body = "cut"
          THEN failsWith(result.out, "invalid v3 archive: payload too short")
          ELSE IF m.body = "garbled" \/ result.password # secret
          THEN failsWith(result.out, "decryption failed: wrong password or corrupted archive")
          ELSE result.out = Ok(inner)
  /\ result.op = "decompressCrafted" =>
       LET m == result.made
       IN IF ~m.marked
          THEN failsWith(result.out, "invalid v2 archive: missing payload markers")
          ELSE IF m.sha = "wrong" THEN result.out = Mismatch(WrongDigest, sha256(pristine))
          ELSE IF m.body # "made"
          THEN ~result.out.ok /\ result.out.err \in {"incorrect header check", "incorrect data check"}
          ELSE result.out = Ok(inner)

ChecksInOrderSeen ==
  /\ result.op = "decryptCrafted"
  /\ result.made.headed
  /\ result.made.marked
  /\ result.made.sha = "wrong"
  /\ result.made.body = "cut"
  /\ result.password # secret
  /\ result.out = Mismatch(WrongDigest, sha256(pristine))

(***************************************************************************)
(* What a failed decryption tells (SpecOracle)                             *)
(***************************************************************************)
\* the first byte of each part of a payload: salt, nonce, auth tag, ciphertext
PartAt == [salt |-> 1, nonce |-> 17, tag |-> 29, ciphertext |-> 45]

Parts == {"salt", "nonce", "tag", "ciphertext"}

damaged(payload, part) == [payload EXCEPT ![PartAt[part]] = (@ + 1) % 256]

\* one byte of the payload of the archive file is changed, and the sha256 line of the
\* header is rewritten for the changed payload or left out
Corrupt ==
  /\ result = [op |-> "wrapped", kind |-> "v3"]
  /\ \E part \in Parts, keepsSha \in BOOLEAN :
       \E payload \in {damaged(payloadOf(archive), part)} :
         /\ archive' = v3Around(payload, IF keepsSha THEN sha256(payload) ELSE <<>>)
         /\ result' = [op |-> "wrapped", kind |-> "v3", part |-> part]
  /\ UNCHANGED <<fileList, packOpts, inner, pristine, secret, raw, query, disk>>

CorruptRaw ==
  /\ result = [op |-> "encryptRaw"]
  /\ \E part \in Parts :
       /\ PartAt[part] <= Len(raw.sealed)
       /\ raw' = [raw EXCEPT !.sealed = damaged(@, part)]
       /\ result' = [op |-> "encryptRaw", part |-> part, intact |-> raw.sealed]
  /\ UNCHANGED <<fileList, packOpts, inner, archive, pristine, secret, query, disk>>

DecryptRawAs ==
  /\ result.op = "encryptRaw"
  /\ \E password \in Passwords :
       result' = [op |-> "decryptRawAs", password |-> password, of |-> result,
                  out |-> decryptRaw(raw.sealed, password)]
  /\ UNCHANGED <<fileList, packOpts, inner, archive, pristine, secret, raw, query, disk>>

NextOracle == EncryptNew \/ Corrupt \/ DecryptAs \/ EncryptRaw \/ CorruptRaw \/ DecryptRawAs

SpecOracle == InitWrap /\ [][NextOracle]_vars

ArchiveFailure == Throw("decryption failed: wrong password or corrupted archive")

DataFailure == Throw("decryption failed: wrong password or corrupted data")

\* C28: a decryption that fails at the authentication gives one error value, the
\* same for a changed salt, nonce, tag or ciphertext as for a password of another
\* key on the unchanged archive or buffer.
OneFailure ==
  /\ (result.op = "decrypt" /\ ~result.out.ok) =>
       /\ result.out = ArchiveFailure
       /\ \A q \in Passwords :
            hmacKey(utf8Bytes(q)) # hmacKey(utf8Bytes(secret))
              => decrypt(pristine, q) = result.out
  /\ (result.op = "decryptRawAs" /\ ~result.out.ok) =>
       /\ result.out = DataFailure
       /\ \A q \in Passwords :
            (hmacKey(utf8Bytes(q)) # hmacKey(utf8Bytes(secret)) /\ "intact" \in DOMAIN result.of)
              => decryptRaw(result.of.intact, q) = result.out

OneFailureSeen ==
  /\ result.op = "decrypt"
  /\ "part" \in DOMAIN result.of
  /\ result.of.part = "nonce"
  /\ result.password = secret
  /\ result.out = ArchiveFailure
  /\ \E q \in Passwords : decrypt(pristine, q) = ArchiveFailure

(***************************************************************************)
(* apply and then verify in an empty directory (SpecAgree)                 *)
(***************************************************************************)
AgreeFiles ==
  {[relPath |-> p, content |-> c] :
     p \in { <<"p">>, <<".","/","p">>, <<"d">>, <<"d","/","q">> },
     c \in { utf8Bytes(<<"x","\n">>), utf8Bytes(<<"y">>) }}

\* pack takes any list of files: the same path may come twice
AgreeLists == UNION {[1..n -> AgreeFiles] : n \in 0..MaxFiles}

InitAgree ==
  /\ fileList \in AgreeLists
  /\ packOpts = [name |-> <<>>, description |-> <<>>, noChecksum |-> FALSE]
  /\ inner = <<>>
  /\ archive = <<>>
  /\ pristine = <<>>
  /\ secret = <<>>
  /\ raw = [plain |-> <<>>, sealed |-> <<>>]
  /\ query = [candidate |-> <<>>, base |-> <<>>]
  /\ disk = EmptyDisk
  /\ result = [op |-> "init"]

VerifyApplied ==
  /\ result.op = "apply"
  /\ result.ok
  /\ result' = [op |-> "verifyApplied", out |-> verify(archive, disk, Cwd)]
  /\ UNCHANGED <<fileList, packOpts, inner, archive, secret, pristine, raw, query, disk>>

NextAgree == Pack \/ Apply \/ VerifyApplied

SpecAgree == InitAgree /\ [][NextAgree]_vars

\* C29 as claimed: verify right after an apply that completed returns true.
VerifyAfterApply ==
  result.op = "verifyApplied" => result.out.ok /\ result.out.val

\* two entries of the archive are written to the same file with different bytes
clash(files) ==
  \E i, j \in 1..Len(files) :
    /\ resolve(Cwd, files[i].path) = resolve(Cwd, files[j].path)
    /\ writtenBytes(files[i]) # writtenBytes(files[j])

\* C29 amended: verify right after an apply that completed in an empty directory
\* returns, and it returns true exactly when no two entries of the archive are
\* written to the same file with different bytes.
VerifyAfterApplyUnlessClash ==
  result.op = "verifyApplied" =>
    /\ result.out.ok
    /\ result.out.val <=> ~clash(parseArchive(archive, NoOpts).val.files)

VerifyAfterApplyUnlessClashSeen ==
  /\ result.op = "verifyApplied"
  /\ Len(fileList) = 2
  /\ fileList[1].relPath # fileList[2].relPath
  /\ result.out.ok
  /\ result.out.val
  /\ result.out.fail = 0

(***************************************************************************)
(* The block scanners, one loop iteration at a time (SpecScan)             *)
(***************************************************************************)
MaxLines == 4

V4Lines ==
  { <<"=","=","="," ","p"," ","=","=","=">>, <<"=","=","="," ","E","N","D"," ","p"," ","=","=","=">>, <<"=","=","="," ","q"," ","[","b","i","n","a","r","y","]"," ","=","=","=">>, <<"=","=","="," ","E","N","D"," ","q"," ","=","=","=">>,
    <<"=","=","="," ","E","N","D"," ","z"," ","=","=","=">>, <<"x">> }

V1Lines ==
  { <<"c","a","t"," ",">"," ","'","p","'"," ","<","<"," ","'","E","'">>, <<"E">>, <<"b","a","s","e","6","4"," ","-","d"," ",">"," ","'","q","'"," ","<","<"," ","'","F","'">>, <<"F">>, <<"x">> }

ScanTexts ==
  {join(ls, <<NL>>) :
     ls \in UNION {[1..n -> V4Lines] \cup [1..n -> V1Lines] : n \in 1..MaxLines}}

\* let i = 0 over content.split('\n'); line i of the code is lines[i + 1] here
scanStart(op, content) ==
  [op |-> op, lines |-> split(content), i |-> 0, inside |-> FALSE,
   marker |-> <<>>, start |-> 0, files |-> <<>>]

\* the start line of a v4 block: its path, unless the path starts with 'END '
openV4(line) ==
  LET t == textMatch(line)
      b == binMatch(line)
      filePath == IF b.hit THEN b.path ELSE t.path
  IN IF ~(t.hit \/ b.hit) THEN [hit |-> FALSE]
     ELSE IF startsWith(filePath, <<"E","N","D"," ">>) THEN [hit |-> FALSE]
     ELSE [hit |-> TRUE, path |-> filePath,
           marker |-> <<"=","=","="," ","E","N","D"," ">> \o filePath \o <<" ","=","=","=">>]

\* the start line of a v1 block: its path and its heredoc marker
openV1(line) ==
  LET c == heredocMatch(line, <<"c","a","t"," ",">"," ">>)
      b == heredocMatch(line, <<"b","a","s","e","6","4"," ","-","d"," ",">"," ">>)
  IN IF ~(c.hit \/ b.hit) THEN [hit |-> FALSE]
     ELSE IF c.hit THEN c ELSE b

\* the test at the head of one pass of the outer loop, and the i++ that follows it
outerStep(s, open) ==
  IF open.hit
  THEN [s EXCEPT !.i = s.i + 1, !.inside = TRUE, !.marker = open.marker, !.start = s.i,
                 !.files = Append(s.files, [path |-> open.path, start |-> s.i, lines |-> {}])]
  ELSE [s EXCEPT !.i = s.i + 1]

\* one pass of the inner loop: contentLines.push(lines[i]); i++
innerStep(s) ==
  [s EXCEPT !.i = s.i + 1,
            !.files[Len(s.files)].lines = s.files[Len(s.files)].lines \cup {s.i}]

\* the block is closed and the scan goes back to the line after its start
closeStepRewind(s) ==
  [s EXCEPT !.i = s.start + 1, !.inside = FALSE]

\* the inner loop is left, the entry is pushed, and the i++ at the foot of the outer loop
closeStep(s) ==
  [s EXCEPT !.i = s.i + 1, !.inside = FALSE]

InitScan ==
  /\ fileList = <<>>
  /\ packOpts = [name |-> <<>>, description |-> <<>>, noChecksum |-> FALSE]
  /\ inner = <<>>
  /\ archive = <<>>
  /\ pristine = <<>>
  /\ secret = <<>>
  /\ raw = [plain |-> <<>>, sealed |-> <<>>]
  /\ query = [candidate |-> <<>>, base |-> <<>>]
  /\ disk = EmptyDisk
  /\ result = [op |-> "init"]

ScanRest == <<fileList, packOpts, archive, secret, pristine, raw, query, disk>>

StartV4 ==
  /\ result.op = "init"
  /\ \E content \in ScanTexts :
       /\ inner' = content
       /\ result' = scanStart("parseContentV4", content)
  /\ UNCHANGED ScanRest

StartV1 ==
  /\ result.op = "init"
  /\ \E content \in ScanTexts :
       /\ inner' = content
       /\ result' = scanStart("parseContentV1", content)
  /\ UNCHANGED ScanRest

OuterV4 ==
  /\ result.op = "parseContentV4"
  /\ ~result.inside
  /\ result.i < Len(result.lines)
  /\ result' = outerStep(result, openV4(result.lines[result.i + 1]))
  /\ UNCHANGED <<inner, ScanRest>>

OuterV1 ==
  /\ result.op = "parseContentV1"
  /\ ~result.inside
  /\ result.i < Len(result.lines)
  /\ result' = outerStep(result, openV1(result.lines[result.i + 1]))
  /\ UNCHANGED <<inner, ScanRest>>

Inner ==
  /\ result.op \in {"parseContentV4", "parseContentV1"}
  /\ result.inside
  /\ result.i < Len(result.lines)
  /\ result.lines[result.i + 1] # result.marker
  /\ result' = innerStep(result)
  /\ UNCHANGED <<inner, ScanRest>>

Close ==
  /\ result.op \in {"parseContentV4", "parseContentV1"}
  /\ result.inside
  /\ ~(result.i < Len(result.lines) /\ result.lines[result.i + 1] # result.marker)
  /\ result' = closeStep(result)
  /\ UNCHANGED <<inner, ScanRest>>

NextScan == StartV4 \/ StartV1 \/ OuterV4 \/ OuterV1 \/ Inner \/ Close

SpecScan == InitScan /\ [][NextScan]_vars /\ WF_vars(NextScan)

scanning == result.op \in {"parseContentV4", "parseContentV1"}

\* the while loop has been left
scanDone == scanning /\ ~result.inside /\ result.i >= Len(result.lines)

\* entries in the order of their start lines, each line content of at most one
\* entry, and no start line inside the content of another entry
blocksApart ==
  LET fs == result.files
  IN /\ \A k \in 1..(Len(fs) - 1) : fs[k].start < fs[k + 1].start
     /\ \A k, m \in 1..Len(fs) :
          k # m => /\ fs[k].lines \cap fs[m].lines = {}
                   /\ fs[m].start \notin fs[k].lines
     /\ \A k \in 1..Len(fs) : \A n \in fs[k].lines : fs[k].start < n /\ n < result.i

\* C30: each pass of either loop of the block scanners of parseContentV4 and
\* parseContentV1 moves the line index up, the entries come in the order of their
\* start lines, no line is content of two entries, and the scan ends.
ScannersTerminate ==
  /\ [][scanning /\ result'.op = result.op => result'.i > result.i]_vars
  /\ [](scanning => blocksApart)
  /\ <>scanDone

ScannersTerminateSeen ==
  /\ scanDone
  /\ Len(result.files) = 2
  /\ result.files[1].lines # {}
  /\ result.files[2].start = Len(result.lines) - 1
====
